---- MODULE Spec2Model ----
(***************************************************************************)
(* Zylith ASP (asp/): the request pipelines (deposit, withdraw, swap,      *)
(* mint, burn), the Store (db/queries.rs), the worker tree behind its      *)
(* mutex, the relayer behind its mutex and the event syncer                *)
(* (sync/events.rs), as one state machine.                                 *)
(*                                                                         *)
(* Strings that the code parses or formats are sequences of one-character  *)
(* strings (<<"0","x","a">> is "0xa"), so that the conversions are         *)
(* computed digit by digit as BigUint does.                                *)
(***************************************************************************)
EXTENDS Integers, Sequences, FiniteSets, TLC

(***************************************************************************)
(* Bounds of the model.                                                    *)
(***************************************************************************)
MaxFaults == 1      \* worker commands / relayer transactions that fail
MaxBlock == 2       \* highest chain block number
MaxCommands == 3    \* worker commands sent while the protocol is watched

Tasks == {"t1", "t2"}
NoTask == "none"

Err == -1

(***************************************************************************)
(* num-bigint: BigUint::from_str_radix / to_str_radix.                     *)
(***************************************************************************)
LowerDigits == <<"0","1","2","3","4","5","6","7","8","9","a","b","c","d","e","f">>
UpperDigits == <<"0","1","2","3","4","5","6","7","8","9","A","B","C","D","E","F">>

digit_value(c, radix) ==
    IF \E i \in 1..radix : LowerDigits[i] = c
    THEN (CHOOSE i \in 1..radix : LowerDigits[i] = c) - 1
    ELSE IF \E i \in 1..radix : UpperDigits[i] = c
         THEN (CHOOSE i \in 1..radix : UpperDigits[i] = c) - 1
         ELSE Err

RECURSIVE parse_digits(_, _, _)
parse_digits(s, radix, acc) ==
    IF s = <<>> THEN acc
    ELSE IF digit_value(Head(s), radix) = Err THEN Err
         ELSE parse_digits(Tail(s), radix, acc * radix + digit_value(Head(s), radix))

\* Err for the empty string and for any character that is no digit of the radix
from_str_radix(s, radix) ==
    IF s = <<>> THEN Err ELSE parse_digits(s, radix, 0)

RECURSIVE to_str_radix(_, _)
to_str_radix(n, radix) ==
    IF n < radix THEN <<LowerDigits[n + 1]>>
    ELSE to_str_radix(n \div radix, radix) \o <<LowerDigits[(n % radix) + 1]>>

has_0x_prefix(s) == Len(s) >= 2 /\ s[1] = "0" /\ s[2] \in {"x", "X"}

\* hex.strip_prefix("0x").or_else(|| hex.strip_prefix("0X"))
strip_prefix(s) == SubSeq(s, 3, Len(s))

(***************************************************************************)
(* api/handlers/deposit.rs: the two conversions.  A Result is a record     *)
(* [ok, val].                                                              *)
(***************************************************************************)
commitment_to_decimal(hex) ==
    LET stripped == IF has_0x_prefix(hex) THEN strip_prefix(hex) ELSE hex
        big == from_str_radix(stripped, 16)
    IN  IF big = Err THEN [ok |-> FALSE, val |-> <<>>]
        ELSE [ok |-> TRUE, val |-> to_str_radix(big, 10)]

decimal_to_hex(dec) ==
    LET big == from_str_radix(dec, 10)
    IN  IF big = Err THEN dec ELSE <<"0", "x">> \o to_str_radix(big, 16)

(***************************************************************************)
(* relayer/starknet.rs: u256_to_felts decides whether a value reaches the  *)
(* chain, and as which number.                                             *)
(***************************************************************************)
u256_to_felts(value) ==
    IF has_0x_prefix(value) THEN from_str_radix(strip_prefix(value), 16)
    ELSE from_str_radix(value, 10)

(***************************************************************************)
(* db/queries.rs: the Store's tables as values, its statements as          *)
(* operators on them.  commitments maps leaf_index to its row, nullifiers  *)
(* maps nullifier_hash to its row, merkle_roots is the id-ordered log,     *)
(* sync_state maps a key to its value.  An absent Option is NoTx.          *)
(***************************************************************************)
NoTx == "none"

\* INSERT OR REPLACE in place of INSERT OR IGNORE: an occupied row is rewritten
insert_commitment_replace(tbl, leaf_index, commitment, deposit_tx) ==
    [i \in DOMAIN tbl \cup {leaf_index} |->
        IF i = leaf_index THEN [commitment |-> commitment, deposit_tx |-> deposit_tx]
        ELSE tbl[i]]

\* INSERT OR IGNORE INTO commitments (leaf_index is the primary key)
insert_commitment(tbl, leaf_index, commitment, deposit_tx) ==
    IF leaf_index \in DOMAIN tbl THEN tbl
    ELSE tbl @@ (leaf_index :> [commitment |-> commitment, deposit_tx |-> deposit_tx])

\* SELECT ... WHERE leaf_index = ?1 : is_some(), and the row
has_commitment(tbl, leaf_index) == leaf_index \in DOMAIN tbl

\* SELECT COUNT(*) FROM commitments
get_leaf_count(tbl) == Cardinality(DOMAIN tbl)

\* SELECT ... ORDER BY leaf_index ASC, as the list of commitments
RECURSIVE get_all_commitments(_)
get_all_commitments(tbl) ==
    IF DOMAIN tbl = {} THEN <<>>
    ELSE LET m == CHOOSE i \in DOMAIN tbl : \A j \in DOMAIN tbl : i <= j
         IN  <<tbl[m].commitment>>
             \o get_all_commitments([i \in DOMAIN tbl \ {m} |-> tbl[i]])

\* INSERT INTO merkle_roots (id is AUTOINCREMENT)
insert_root(log, root, leaf_count, submit_tx) ==
    Append(log, [root |-> root, leaf_count |-> leaf_count, submit_tx |-> submit_tx])

\* SELECT root FROM merkle_roots ORDER BY id DESC LIMIT 1
has_latest_root(log) == Len(log) > 0

\* the row with the lowest id
get_latest_root_oldest(log) == log[1].root

get_latest_root(log) == log[Len(log)].root

\* INSERT OR REPLACE in place of INSERT OR IGNORE: the last write wins
insert_nullifier_replace(tbl, nullifier_hash, circuit_type, tx_hash) ==
    [h \in DOMAIN tbl \cup {nullifier_hash} |->
        IF h = nullifier_hash THEN [circuit_type |-> circuit_type, tx_hash |-> tx_hash]
        ELSE tbl[h]]

\* INSERT OR IGNORE INTO nullifiers (nullifier_hash is the primary key)
insert_nullifier(tbl, nullifier_hash, circuit_type, tx_hash) ==
    IF nullifier_hash \in DOMAIN tbl THEN tbl
    ELSE tbl @@ (nullifier_hash :> [circuit_type |-> circuit_type, tx_hash |-> tx_hash])

\* SELECT COUNT(*) FROM nullifiers WHERE nullifier_hash = ?1 ; count > 0
is_nullifier_spent(tbl, nullifier_hash) == nullifier_hash \in DOMAIN tbl

\* SELECT value FROM sync_state WHERE key = ?1
has_sync_state(tbl, key) == key \in DOMAIN tbl

\* INSERT OR REPLACE INTO sync_state
set_sync_state(tbl, key, value) ==
    [k \in DOMAIN tbl \cup {key} |-> IF k = key THEN value ELSE tbl[k]]

(***************************************************************************)
(* The worker (worker/worker.mjs, driven through prover/worker.rs): its    *)
(* tree is the ordered list of leaves; the root is an injective digest of  *)
(* that list, "0" for the empty tree; commitments and nullifier hashes are *)
(* injective functions of the note fields (a collision-free hash).         *)
(***************************************************************************)
RECURSIVE leaves_digest(_)
leaves_digest(leaves) ==
    IF leaves = <<>> THEN <<>>
    ELSE <<LowerDigits[Len(Head(leaves)) + 1]>> \o Head(leaves) \o leaves_digest(Tail(leaves))

merkle_root(leaves) ==
    IF leaves = <<>> THEN <<"0">> ELSE <<"1">> \o leaves_digest(leaves)

\* the leaves the tree has room for (2^20 in the service)
TreeCapacity == 8

\* insert_leaf on a tree holding all its leaves is refused
tree_full(leaves) == Len(leaves) >= TreeCapacity

\* insert_leaf {leaf} -> {root}: appends
worker_insert_leaf(leaves, leaf) == Append(leaves, leaf)

\* get_proof {leafIndex}: answers only for a leaf the tree holds
worker_has_leaf(leaves, leaf_index) == leaf_index < Len(leaves)

\* BigInt(x) of a field the worker receives: decimal, or hex with 0x
field_value(x) == u256_to_felts(x)

\* compute_commitment {secret, nullifier, amount_low, amount_high, token}:
\* injective on the notes of the model (secret < 9, amount_low < 4)
compute_commitment(secret, nullifier, amount_low, amount_high, token) ==
    [commitment |-> to_str_radix(1 + field_value(amount_low)
                                   + 4 * (field_value(secret) - 1)
                                   + 32 * field_value(amount_high)
                                   + 64 * (field_value(nullifier) - 1)
                                   + 128 * (field_value(token) - 1), 10),
     nullifier_hash |-> to_str_radix(100 + field_value(secret)
                                       + 8 * (field_value(nullifier) - 1), 10)]

\* compute_position_commitment {secret, nullifier, tickLower, tickUpper, liquidity}
compute_position_commitment(secret, nullifier, tickLower, tickUpper, liquidity) ==
    [commitment |-> to_str_radix(40 + field_value(secret)
                                   + 8 * (field_value(nullifier) - 1)
                                   + 16 * (field_value(liquidity) - 1)
                                   + 32 * (tickLower % 3) + 96 * (tickUpper % 3), 10),
     nullifier_hash |-> to_str_radix(100 + field_value(secret)
                                       + 8 * (field_value(nullifier) - 1), 10)]

\* the change a spend leaves: the commitment of the change note, "0" for none
change_commitment(secrets, balance_low, spent_low, token) ==
    IF field_value(balance_low) = field_value(spent_low) THEN <<"0">>
    ELSE compute_commitment(secrets.secret, secrets.nullifier,
             to_str_radix(field_value(balance_low) - field_value(spent_low), 10),
             <<"0">>, token).commitment

(***************************************************************************)
(* Requests.  A balance note is (secret, nullifier, amount_low,            *)
(* amount_high, token); NoteA and NoteA2 share secret and nullifier (one   *)
(* nullifier hash) and differ in the amount (two commitments).             *)
(***************************************************************************)
Token == <<"0", "x", "1">>
NoteA  == [secret |-> <<"1">>, nullifier |-> <<"1">>, amount_low |-> <<"2">>,
           amount_high |-> <<"0">>, token |-> Token]
NoteA2 == [NoteA EXCEPT !.amount_low = <<"3">>]
NoteB  == [NoteA EXCEPT !.secret = <<"2">>]

HexA == <<"0", "x", "3">>      \* the commitment of NoteA, as the client sends it
HexB == <<"0", "x", "7">>      \* the commitment of NoteB
HexC == <<"0", "x", "6">>      \* the commitment of a note no Store holds yet
HexD == <<"0", "x", "5">>      \* the commitment of another such note

Secrets(x) == [secret |-> x, nullifier |-> <<"1">>]
PoolKey == [token_0 |-> Token, token_1 |-> Token, fee |-> 1, tick_spacing |-> 1]
Position == [secret |-> <<"5">>, nullifier |-> <<"1">>, liquidity |-> <<"1">>,
             tick_lower |-> -1, tick_upper |-> 1]

DepositReq(c) == [op |-> "deposit", commitment |-> c]
WithdrawReq(note, leaf_index, recipient) ==
    [op |-> "withdraw", note |-> note, leaf_index |-> leaf_index, recipient |-> recipient]

\* SwapRequest: input_note with its leaf_index, swap_params, output_note, change_note
SwapReq(note, leaf_index, amount_in, amount_out_low) ==
    [op |-> "swap", note |-> note, leaf_index |-> leaf_index,
     swap_params |-> [token_in |-> note.token, token_out |-> Token, amount_in |-> amount_in,
                      amount_out_min |-> <<"0">>, amount_out_low |-> amount_out_low,
                      amount_out_high |-> <<"0">>],
     output_note |-> Secrets(<<"3">>), change_note |-> Secrets(<<"4">>),
     pool_key |-> PoolKey, sqrt_price_limit |-> <<"0", "x", "1">>]

\* MintRequest: two input notes, the position, the amounts, two change notes
MintReq(note0, leaf0, note1, leaf1, amount0_low, amount1_low, position, liquidity) ==
    [op |-> "mint", note0 |-> note0, leaf0 |-> leaf0, note1 |-> note1, leaf1 |-> leaf1,
     position |-> position,
     amounts |-> [amount0_low |-> amount0_low, amount0_high |-> <<"0">>,
                  amount1_low |-> amount1_low, amount1_high |-> <<"0">>],
     change_note_0 |-> Secrets(<<"6">>), change_note_1 |-> Secrets(<<"7">>),
     pool_key |-> PoolKey, liquidity |-> liquidity]

\* BurnRequest: the position note with its leaf_index, two output notes
BurnReq(position, leaf_index, out0, out1, liquidity) ==
    [op |-> "burn", position |-> position, leaf_index |-> leaf_index,
     output_note_0 |-> out0, output_note_1 |-> out1,
     pool_key |-> PoolKey, liquidity |-> liquidity]

\* what a run of the service may be asked
DepositInputs == {DepositReq(HexC)}
WithdrawInputs == {WithdrawReq(NoteA, 0, <<"0", "x", "9">>)}
SwapInputs == {SwapReq(NoteA, 0, <<"1">>, <<"1">>)}
MintInputs == {MintReq(NoteA, 0, NoteB, 1, <<"2">>, <<"1">>, Position, 1)}
BurnInputs == {BurnReq(Position, 0, [NoteA EXCEPT !.secret = <<"8">>],
                       [NoteB EXCEPT !.secret = <<"8">>, !.amount_low = <<"1">>], 1)}

(***************************************************************************)
(* api/validation.rs                                                       *)
(***************************************************************************)
validate_secret(value) == value # <<>>

validate_decimal(value) == value # <<>> /\ from_str_radix(value, 10) # Err

\* felt252_max = 2^251 + 17 * 2^192 is above every value the model holds
validate_address(value) ==
    /\ value # <<>>
    /\ has_0x_prefix(value)
    /\ from_str_radix(strip_prefix(value), 16) # Err

MAX_TICK == 887272

\* no bound on a tick
validate_tick_any(tick) == TRUE

validate_tick(tick) == ~(tick < -MAX_TICK \/ tick > MAX_TICK)

validate_tick_range(tick_lower, tick_upper) ==
    /\ validate_tick(tick_lower)
    /\ validate_tick(tick_upper)
    /\ ~(tick_lower >= tick_upper)

\* fits in 256 bits: every value the model holds does
validate_hex_u256(value) ==
    /\ value # <<>>
    /\ has_0x_prefix(value)
    /\ strip_prefix(value) # <<>>
    /\ from_str_radix(strip_prefix(value), 16) # Err

validate_withdraw_request(r) ==
    /\ validate_secret(r.note.secret)
    /\ validate_secret(r.note.nullifier)
    /\ validate_decimal(r.note.amount_low)
    /\ validate_decimal(r.note.amount_high)
    /\ validate_address(r.note.token)
    /\ validate_address(r.recipient)

(***************************************************************************)
(* State.                                                                  *)
(***************************************************************************)
VARIABLES
    commitments,    \* Store: leaf_index -> [commitment, deposit_tx]
    merkle_roots,   \* Store: the log of [root, leaf_count, submit_tx]
    nullifiers,     \* Store: nullifier_hash -> [circuit_type, tx_hash]
    sync_state,     \* Store: key -> value
    tree,           \* the worker's leaves, in order
    workerLock,     \* AppState.worker: the task holding the mutex, or NoTask
    relayer,        \* AppState.relayer: "Starknet" (main.rs) or "Mock" (the tests)
    serial,         \* whether the client sends its requests one after another
    chainHead,      \* the chain's latest block number
    chainLeaves,    \* the coordinator's leaf count (next on-chain leaf_index)
    chainEvents,    \* the coordinator's events, in emission order
    pc,             \* where each request task stands in its handler
    req,            \* the request each task is serving
    loc,            \* the handler's local variables, the response, the outcome
    faults,         \* failures injected so far
    sync,           \* the event-sync task: its position and sync_once's locals
    wk,             \* the worker process, its pipes, and each client's send_command
    watch           \* StarknetRelayer::send_transaction: its transaction and its wait

vars == <<commitments, merkle_roots, nullifiers, sync_state, tree, workerLock, relayer, serial, watch, wk, sync,
          chainHead, chainLeaves, chainEvents, pc, req, loc, faults>>

taskVars == <<pc, req, loc>>

dbVars == <<commitments, merkle_roots, nullifiers, sync_state>>
chainVars == <<chainHead, chainLeaves, chainEvents>>

NoReq == [op |-> "none"]

\* result: "none" while running, "Ok", or the AspError kind returned
\* status: the HTTP status of the response, 0 while there is none
\* proofs, calls, txs: for this request, the generate_proof calls answered, the
\* transactions handed to the relayer, and those of them the chain accepted
\* count_before, spent_before: what the Store held when the request arrived
LocInit ==
    [result |-> "none", leaf_index |-> 0, db_leaf_index |-> 0, root |-> <<>>,
     tx |-> NoTx, root_tx |-> NoTx, nullifier_hash |-> <<>>, nullifier_hash_1 |-> <<>>,
     pending |-> <<>>, last_root |-> <<>>, proofs |-> 0, calls |-> 0, txs |-> 0,
     count_before |-> 0, spent_before |-> FALSE, status |-> 0]

NullifierSpent(value) ==
    [kind |-> "NullifierSpent", leaf_index |-> 0, value |-> value]

\* the coordinator rejects a nullifier it has already seen
SpentOnChain(value) ==
    \E i \in 1..Len(chainEvents) :
        chainEvents[i].kind = "NullifierSpent" /\ chainEvents[i].value = value

CommitmentAdded(leaf_index, value) ==
    [kind |-> "CommitmentAdded", leaf_index |-> leaf_index, value |-> value]

\* a transaction accepted by the chain: a new block carrying its events
Mined(events) ==
    /\ chainHead < MaxBlock
    /\ chainHead' = chainHead + 1
    /\ chainEvents' = chainEvents \o [i \in 1..Len(events) |->
                                          [block |-> chainHead + 1] @@ events[i]]

\* an awaited call (worker command, relayer transaction) that fails
Fault == faults < MaxFaults /\ faults' = faults + 1

(***************************************************************************)
(* error.rs: AspError and the response made of it                          *)
(***************************************************************************)
AspErrorKinds ==
    {"Config", "InvalidInput", "CommitmentNotFound", "NullifierAlreadySpent", "TreeFull",
     "ProverError", "WorkerUnavailable", "TransactionFailed", "TransactionReverted",
     "RpcError", "Database", "Json", "Internal"}

\* an error value: its kind and what it carries (a message, a leaf index, a
\* hash, the error of a library)
AspError == [kind : AspErrorKinds, carried : {<<>>, <<"0">>, <<"x">>}]

\* status.as_u16(), line 77
as_u16(status) ==
    CASE status = "BAD_REQUEST" -> 400
      [] status = "NOT_FOUND" -> 404
      [] status = "CONFLICT" -> 409
      [] status = "INTERNAL_SERVER_ERROR" -> 500
      [] status = "BAD_GATEWAY" -> 502
      [] status = "SERVICE_UNAVAILABLE" -> 503

\* every error answered as an internal error
into_response_internal(e) == as_u16("INTERNAL_SERVER_ERROR")

\* lines 52-81: the match on the error, the status of the response built from
\* it (its body carries the message and the same status number)
into_response(e) ==
    LET status ==
            CASE e.kind = "Config" -> "INTERNAL_SERVER_ERROR"
              [] e.kind = "InvalidInput" -> "BAD_REQUEST"
              [] e.kind = "CommitmentNotFound" -> "NOT_FOUND"
              [] e.kind = "NullifierAlreadySpent" -> "CONFLICT"
              [] e.kind = "TreeFull" -> "SERVICE_UNAVAILABLE"
              [] e.kind = "ProverError" -> "SERVICE_UNAVAILABLE"
              [] e.kind = "WorkerUnavailable" -> "SERVICE_UNAVAILABLE"
              [] e.kind = "TransactionFailed" -> "BAD_GATEWAY"
              [] e.kind = "TransactionReverted" -> "BAD_GATEWAY"
              [] e.kind = "RpcError" -> "BAD_GATEWAY"
              [] e.kind = "Database" -> "INTERNAL_SERVER_ERROR"
              [] e.kind = "Json" -> "BAD_REQUEST"
              [] e.kind = "Internal" -> "INTERNAL_SERVER_ERROR"
    IN  as_u16(status)

\* the handler returns: Ok(Json(..)) is answered with 200, Err(e) with
\* e.into_response()
Respond(t, result, carried, l) ==
    /\ pc' = [pc EXCEPT ![t] = "done"]
    /\ loc' = [loc EXCEPT ![t] =
                  [l EXCEPT !.result = result,
                            !.status = IF result = "Ok" THEN 200
                                       ELSE into_response([kind |-> result, carried |-> carried])]]

Finish(t, result, l) == Respond(t, result, <<>>, l)

Goto(t, label, l) ==
    /\ pc' = [pc EXCEPT ![t] = label]
    /\ loc' = [loc EXCEPT ![t] = l]

(***************************************************************************)
(* Each relayer call is lock; one call awaited to its receipt; drop, and   *)
(* is one step.  A worker critical section that reads the Store and sends  *)
(* read-only or single commands is one step too (nothing another task does *)
(* can be observed inside it); the leaf-insertion sections of swap, mint,  *)
(* burn and the syncer keep the lock across steps.                         *)
(***************************************************************************)
\* Each task serves one request; the tasks being alike, the second is taken
\* once the first is.  A serial client waits for each response before it sends
\* the next request.
Idle(t) ==
    /\ pc[t] = "idle"
    /\ t = "t2" => pc["t1"] # "idle"
    /\ serial => \A u \in Tasks : pc[u] \in {"idle", "done"}

Begin(t, r) == req' = [req EXCEPT ![t] = r]

\* the nullifier hashes of the notes a request spends
spent_hashes(r) ==
    IF r.op \in {"withdraw", "swap"}
    THEN {compute_commitment(r.note.secret, r.note.nullifier, r.note.amount_low,
                             r.note.amount_high, r.note.token).nullifier_hash}
    ELSE IF r.op = "mint"
    THEN {compute_commitment(n.secret, n.nullifier, n.amount_low, n.amount_high,
                             n.token).nullifier_hash : n \in {r.note0, r.note1}}
    ELSE {}

\* the handler's locals as a well-formed request arrives
Entry(r) ==
    [LocInit EXCEPT !.count_before = get_leaf_count(commitments),
                    !.spent_before = \E h \in spent_hashes(r) : is_nullifier_spent(nullifiers, h)]

(***************************************************************************)
(* api/handlers/deposit.rs: deposit                                        *)
(***************************************************************************)
\* lines 14-17: the only check before the first relayer call
DepositStart(t, r) ==
    /\ Idle(t)
    /\ Begin(t, r)
    /\ IF r.commitment = <<>>
       THEN Finish(t, "InvalidInput", Entry(r))
       ELSE Goto(t, "dep_deposit", Entry(r))
    /\ UNCHANGED <<dbVars, tree, workerLock, relayer, serial, watch, wk, sync, chainVars, faults>>

\* relayer.deposit's error not propagated: the leaf is inserted all the same
DepositRelayerDeposit_unchecked(t) ==
    /\ pc[t] = "dep_deposit"
    /\ LET called == [loc[t] EXCEPT !.calls = @ + 1]
       IN  \/ /\ Mined(<<CommitmentAdded(chainLeaves, u256_to_felts(req[t].commitment))>>)
              /\ chainLeaves' = chainLeaves + 1
              /\ Goto(t, "dep_insert_leaf", [called EXCEPT !.tx = "deposit_tx", !.txs = @ + 1])
              /\ UNCHANGED faults
           \/ /\ Fault
              /\ Goto(t, "dep_insert_leaf", called)
              /\ UNCHANGED chainVars
    /\ UNCHANGED <<dbVars, tree, workerLock, relayer, serial, watch, wk, sync, req>>

\* lines 21-24: relayer.deposit(&req.commitment).  StarknetRelayer parses the
\* value first (u256_to_felts) and then sends; the tests' MockRelayer answers Ok.
DepositRelayerDeposit(t) ==
    /\ pc[t] = "dep_deposit"
    /\ LET v == u256_to_felts(req[t].commitment)
           called == [loc[t] EXCEPT !.calls = @ + 1]
           sent == [called EXCEPT !.tx = "deposit_tx", !.txs = @ + 1]
       IN  IF relayer = "Mock"
           THEN /\ Goto(t, "dep_insert_leaf", sent)
                /\ UNCHANGED <<chainVars, faults>>
           ELSE IF v = Err
           THEN /\ Finish(t, "InvalidInput", loc[t])
                /\ UNCHANGED <<chainVars, faults>>
           ELSE \/ /\ Mined(<<CommitmentAdded(chainLeaves, v)>>)
                   /\ chainLeaves' = chainLeaves + 1
                   /\ Goto(t, "dep_insert_leaf", sent)
                   /\ UNCHANGED faults
                \/ /\ Fault
                   /\ Finish(t, "TransactionFailed", called)
                   /\ UNCHANGED chainVars
    /\ UNCHANGED <<dbVars, tree, workerLock, relayer, serial, watch, wk, sync, req>>

\* lines 26-29: worker.lock(); insert_leaf(commitment_to_decimal(..)?); drop
DepositInsertLeaf(t) ==
    /\ pc[t] = "dep_insert_leaf"
    /\ workerLock = NoTask
    /\ LET dec == commitment_to_decimal(req[t].commitment)
       IN  IF ~dec.ok
           THEN /\ Finish(t, "InvalidInput", loc[t])
                /\ UNCHANGED <<tree, faults>>
           ELSE \/ /\ ~tree_full(tree)
                   /\ tree' = worker_insert_leaf(tree, dec.val)
                   /\ Goto(t, "dep_leaf_count", [loc[t] EXCEPT !.root = merkle_root(tree')])
                   /\ UNCHANGED faults
                \/ /\ IF tree_full(tree) THEN UNCHANGED faults ELSE Fault
                   /\ Finish(t, "ProverError", loc[t])
                   /\ UNCHANGED tree
    /\ UNCHANGED <<dbVars, workerLock, relayer, serial, watch, wk, sync, chainVars, req>>

\* lines 31-35: get_leaf_count, db_leaf_index
db_leaf_index(leaf_index) == IF leaf_index > 0 THEN leaf_index - 1 ELSE 0

DepositLeafCount(t) ==
    /\ pc[t] = "dep_leaf_count"
    /\ LET n == get_leaf_count(commitments)
       IN  Goto(t, "dep_insert_commitment",
                [loc[t] EXCEPT !.leaf_index = n, !.db_leaf_index = db_leaf_index(n)])
    /\ UNCHANGED <<dbVars, tree, workerLock, relayer, serial, watch, wk, sync, chainVars, req, faults>>

\* lines 36-40: insert_commitment(db_leaf_index, decimal, Some(deposit_tx))
DepositInsertCommitment(t) ==
    /\ pc[t] = "dep_insert_commitment"
    /\ commitments' = insert_commitment(commitments, loc[t].db_leaf_index,
                          commitment_to_decimal(req[t].commitment).val, loc[t].tx)
    /\ Goto(t, "dep_submit_root", loc[t])
    /\ UNCHANGED <<merkle_roots, nullifiers, sync_state, tree, workerLock, relayer, serial, watch, wk, sync,
                   chainVars, req, faults>>

\* lines 42-64: relayer.submit_merkle_root(&root), then
\* insert_root(&root, leaf_index, Some(&root_tx)) and the response
DepositSubmitRoot(t) ==
    /\ pc[t] = "dep_submit_root"
    /\ LET called == [loc[t] EXCEPT !.calls = @ + 1]
       IN  \/ /\ merkle_roots' = insert_root(merkle_roots, loc[t].root, loc[t].leaf_index, "root_tx")
              /\ Finish(t, "Ok", [called EXCEPT !.root_tx = "root_tx"])
              /\ UNCHANGED faults
           \/ /\ relayer = "Starknet"
              /\ Fault
              /\ Finish(t, "TransactionFailed", called)
              /\ UNCHANGED merkle_roots
    /\ UNCHANGED <<commitments, nullifiers, sync_state, tree, workerLock, relayer, serial, watch, wk, sync,
                   chainVars, req>>

Deposit(t, inputs) ==
    \/ \E r \in inputs : r.op = "deposit" /\ DepositStart(t, r)
    \/ DepositRelayerDeposit(t)
    \/ DepositInsertLeaf(t)
    \/ DepositLeafCount(t)
    \/ DepositInsertCommitment(t)
    \/ DepositSubmitRoot(t)

(***************************************************************************)
(* api/handlers/withdraw.rs: withdraw                                      *)
(***************************************************************************)
\* lines 15-21
WithdrawStart(t, r) ==
    /\ Idle(t)
    /\ Begin(t, r)
    /\ IF validate_withdraw_request(r)
       THEN Goto(t, "wd_prove", Entry(r))
       ELSE Finish(t, "InvalidInput", LocInit)
    /\ UNCHANGED <<dbVars, tree, workerLock, relayer, serial, watch, wk, sync, chainVars, faults>>

\* the stored row compared, the nullifier not looked up
authenticate_unchecked(cs, ns, cr, leaf_index) ==
    IF ~has_commitment(cs, leaf_index) THEN "CommitmentNotFound"
    ELSE IF cs[leaf_index].commitment # cr.commitment THEN "InvalidInput"
    ELSE "Ok"

\* the stored row looked up, its commitment not compared
authenticate_any_row(cs, ns, cr, leaf_index) ==
    IF ~has_commitment(cs, leaf_index) THEN "CommitmentNotFound"
    ELSE IF is_nullifier_spent(ns, cr.nullifier_hash) THEN "NullifierAlreadySpent"
    ELSE "Ok"

\* lines 32-49 (swap.rs 70-80 and mint.rs 88-108 repeat them): the stored row
\* must be the computed commitment, then the nullifier must be unspent
authenticate(cs, ns, cr, leaf_index) ==
    IF ~has_commitment(cs, leaf_index) THEN "CommitmentNotFound"
    ELSE IF cs[leaf_index].commitment # cr.commitment THEN "InvalidInput"
    ELSE IF is_nullifier_spent(ns, cr.nullifier_hash) THEN "NullifierAlreadySpent"
    ELSE "Ok"

\* lines 26-70: under the worker lock: compute_commitment, the stored row,
\* the nullifier, get_proof, generate_proof("membership"); drop
WithdrawProve(t) ==
    /\ pc[t] = "wd_prove"
    /\ workerLock = NoTask
    /\ LET n == req[t].note
           cr == compute_commitment(n.secret, n.nullifier, n.amount_low, n.amount_high, n.token)
           l == [loc[t] EXCEPT !.nullifier_hash = cr.nullifier_hash]
           auth == authenticate(commitments, nullifiers, cr, req[t].leaf_index)
       IN  \/ /\ UNCHANGED faults
              /\ IF auth # "Ok"
                 THEN Finish(t, auth, l)
                 ELSE IF ~worker_has_leaf(tree, req[t].leaf_index)
                 THEN Finish(t, "ProverError", l)
                 ELSE Goto(t, "wd_verify", [l EXCEPT !.proofs = @ + 1])
           \/ /\ Fault
              /\ Finish(t, "ProverError", loc[t])
    /\ UNCHANGED <<dbVars, tree, workerLock, relayer, serial, watch, wk, sync, chainVars, req>>

\* a spend transaction carrying the nullifier hash nh and the new commitments cs
RECURSIVE AddedEvents(_, _)
AddedEvents(first, cs) ==
    IF cs = <<>> THEN <<>>
    ELSE <<CommitmentAdded(first, from_str_radix(Head(cs), 10))>>
         \o AddedEvents(first + 1, Tail(cs))

\* the relayer's error not propagated: the handler goes on after a failure
SpendTx_unchecked(t, nhs, cs, tx, next) ==
    LET called == [loc[t] EXCEPT !.calls = @ + 1]
    IN  \/ /\ Mined([i \in 1..Len(nhs) |-> NullifierSpent(from_str_radix(nhs[i], 10))]
                    \o AddedEvents(chainLeaves, cs))
           /\ chainLeaves' = chainLeaves + Len(cs)
           /\ Goto(t, next, [called EXCEPT !.tx = tx, !.txs = @ + 1])
           /\ UNCHANGED faults
        \/ /\ Fault
           /\ Goto(t, next, called)
           /\ UNCHANGED chainVars

SpendTx(t, nhs, cs, tx, next) ==
    LET called == [loc[t] EXCEPT !.calls = @ + 1]
        sent == [called EXCEPT !.tx = tx, !.txs = @ + 1]
        vals == {from_str_radix(nhs[i], 10) : i \in 1..Len(nhs)}
    IN  IF relayer = "Mock"
        THEN /\ Goto(t, next, sent)
             /\ UNCHANGED <<chainVars, faults>>
        ELSE IF \E v \in vals : SpentOnChain(v)
        THEN /\ Finish(t, "TransactionReverted", called)
             /\ UNCHANGED <<chainVars, faults>>
        ELSE \/ /\ Mined([i \in 1..Len(nhs) |-> NullifierSpent(from_str_radix(nhs[i], 10))]
                         \o AddedEvents(chainLeaves, cs))
                /\ chainLeaves' = chainLeaves + Len(cs)
                /\ Goto(t, next, sent)
                /\ UNCHANGED faults
             \/ /\ Fault
                /\ Finish(t, "TransactionFailed", called)
                /\ UNCHANGED chainVars

\* lines 72-78: relayer.verify_membership(&proof_result.calldata)
WithdrawVerify(t) ==
    /\ pc[t] = "wd_verify"
    /\ SpendTx(t, <<loc[t].nullifier_hash>>, <<>>, "membership_tx", "wd_record")
    /\ UNCHANGED <<dbVars, tree, workerLock, relayer, serial, watch, wk, sync, req>>

\* a root row written by the withdraw as well
WithdrawRecord_with_root(t) ==
    /\ pc[t] = "wd_record"
    /\ nullifiers' = insert_nullifier(nullifiers, loc[t].nullifier_hash, "membership", loc[t].tx)
    /\ merkle_roots' = insert_root(merkle_roots, merkle_root(tree), get_leaf_count(commitments),
                                   loc[t].tx)
    /\ Finish(t, "Ok", loc[t])
    /\ UNCHANGED <<commitments, sync_state, tree, workerLock, relayer, serial, watch, wk, sync,
                   chainVars, req, faults>>

\* lines 80-96: insert_nullifier(hash, "membership", Some(&tx_hash)); the response
WithdrawRecord(t) ==
    /\ pc[t] = "wd_record"
    /\ nullifiers' = insert_nullifier(nullifiers, loc[t].nullifier_hash, "membership", loc[t].tx)
    /\ Finish(t, "Ok", loc[t])
    /\ UNCHANGED <<commitments, merkle_roots, sync_state, tree, workerLock, relayer, serial, watch, wk, sync,
                   chainVars, req, faults>>

Withdraw(t, inputs) ==
    \/ \E r \in inputs : r.op = "withdraw" /\ WithdrawStart(t, r)
    \/ WithdrawProve(t)
    \/ WithdrawVerify(t)
    \/ WithdrawRecord(t)

(***************************************************************************)
(* The leaf-insertion section swap, mint and burn share in shape: under    *)
(* one hold of the worker lock, for each new commitment: get_leaf_count,   *)
(* insert_commitment at that index, worker.insert_leaf; then drop.         *)
(***************************************************************************)
\* the "0" of an absent commitment not looked for
appended_nonempty(c) == c # <<>>

\* a change commitment is appended unless it is empty or "0"
appended(c) == c # <<>> /\ c # <<"0">>

\* the guard kept until the handler returns
drop_worker_late(t) == t

\* drop(worker) after the last leaf (swap.rs 169, mint.rs 229, burn.rs 168)
drop_worker(t) == NoTask

\* the index read once, before the first leaf, and used for every leaf
NextLeafIndex_stale(t, here, next) ==
    /\ pc[t] = here
    /\ workerLock \in {NoTask, t}
    /\ workerLock' = t
    /\ Goto(t, next, [loc[t] EXCEPT !.leaf_index =
                         IF workerLock = t THEN @ ELSE get_leaf_count(commitments)])
    /\ UNCHANGED <<dbVars, tree, relayer, serial, watch, wk, sync, chainVars, req, faults>>

\* let idx = state.db.get_leaf_count()?  (the first one follows worker.lock())
NextLeafIndex(t, here, next) ==
    /\ pc[t] = here
    /\ workerLock \in {NoTask, t}
    /\ workerLock' = t
    /\ Goto(t, next, [loc[t] EXCEPT !.leaf_index = get_leaf_count(commitments)])
    /\ UNCHANGED <<dbVars, tree, relayer, serial, watch, wk, sync, chainVars, req, faults>>

\* insert_commitment(idx, c, Some(&tx_hash))?; worker.insert_leaf(c).await?;
\* after the last one drop(worker)
InsertPending(t, here, again, after) ==
    /\ pc[t] = here
    /\ workerLock = t
    /\ commitments' = insert_commitment(commitments, loc[t].leaf_index,
                                        Head(loc[t].pending), loc[t].tx)
    /\ \/ /\ ~tree_full(tree)
          /\ tree' = worker_insert_leaf(tree, Head(loc[t].pending))
          /\ LET l == [loc[t] EXCEPT !.pending = Tail(@), !.last_root = merkle_root(tree')]
             IN  IF l.pending = <<>>
                 THEN workerLock' = drop_worker(t) /\ Goto(t, after, l)
                 ELSE workerLock' = t /\ Goto(t, again, l)
          /\ UNCHANGED faults
       \/ /\ IF tree_full(tree) THEN UNCHANGED faults ELSE Fault
          /\ workerLock' = NoTask
          /\ Finish(t, "ProverError", loc[t])
          /\ UNCHANGED tree
    /\ UNCHANGED <<merkle_roots, nullifiers, sync_state, relayer, serial, watch, wk, sync, chainVars, req>>

\* let new_count = state.db.get_leaf_count()?
NewCount(t, here, next) ==
    /\ pc[t] = here
    /\ Goto(t, next, [loc[t] EXCEPT !.leaf_index = get_leaf_count(commitments)])
    /\ UNCHANGED <<dbVars, tree, workerLock, relayer, serial, watch, wk, sync, chainVars, req, faults>>

\* the root row written only once submit_merkle_root has succeeded
RecordRoot_after_submit(t, here) ==
    /\ pc[t] = here
    /\ LET called == [loc[t] EXCEPT !.calls = @ + 1]
       IN  \/ /\ merkle_roots' = insert_root(merkle_roots, loc[t].last_root,
                                              loc[t].leaf_index, loc[t].tx)
              /\ Finish(t, "Ok", [called EXCEPT !.root_tx = "root_tx"])
              /\ UNCHANGED faults
           \/ /\ relayer = "Starknet"
              /\ Fault
              /\ Finish(t, "TransactionFailed", called)
              /\ UNCHANGED merkle_roots
    /\ UNCHANGED <<commitments, nullifiers, sync_state, tree, workerLock, relayer, serial, watch, wk, sync,
                   chainVars, req>>

\* state.db.insert_root(&last_root, new_count, Some(&tx_hash))?, then
\* relayer.submit_merkle_root(&last_root).await: a failure fails the request
RecordRoot(t, here) ==
    /\ pc[t] = here
    /\ merkle_roots' = insert_root(merkle_roots, loc[t].last_root, loc[t].leaf_index, loc[t].tx)
    /\ LET called == [loc[t] EXCEPT !.calls = @ + 1]
       IN  \/ /\ Finish(t, "Ok", [called EXCEPT !.root_tx = "root_tx"])
              /\ UNCHANGED faults
           \/ /\ relayer = "Starknet"
              /\ Fault
              /\ Finish(t, "TransactionFailed", called)
    /\ UNCHANGED <<commitments, nullifiers, sync_state, tree, workerLock, relayer, serial, watch, wk, sync,
                   chainVars, req>>

(***************************************************************************)
(* api/handlers/swap.rs                                                    *)
(***************************************************************************)
validate_swap_request(r) ==
    /\ validate_secret(r.note.secret)
    /\ validate_secret(r.note.nullifier)
    /\ validate_decimal(r.note.amount_low)
    /\ validate_decimal(r.note.amount_high)
    /\ validate_address(r.note.token)
    /\ validate_address(r.swap_params.token_in)
    /\ validate_address(r.swap_params.token_out)
    /\ validate_decimal(r.swap_params.amount_in)
    /\ validate_decimal(r.swap_params.amount_out_min)
    /\ validate_decimal(r.swap_params.amount_out_low)
    /\ validate_decimal(r.swap_params.amount_out_high)
    /\ validate_secret(r.output_note.secret)
    /\ validate_secret(r.output_note.nullifier)
    /\ validate_secret(r.change_note.secret)
    /\ validate_secret(r.change_note.nullifier)
    /\ validate_address(r.pool_key.token_0)
    /\ validate_address(r.pool_key.token_1)
    /\ validate_hex_u256(r.sqrt_price_limit)

\* line 49
SwapStart(t, r) ==
    /\ Idle(t)
    /\ Begin(t, r)
    /\ IF validate_swap_request(r)
       THEN Goto(t, "sw_prove", Entry(r))
       ELSE Finish(t, "InvalidInput", LocInit)
    /\ UNCHANGED <<dbVars, tree, workerLock, relayer, serial, watch, wk, sync, chainVars, faults>>

\* lines 56-122: under the worker lock: the input note authenticated, get_proof,
\* the output commitment, generate_proof("swap"); drop.  publicSignals[0] is the
\* change commitment the circuit derives.
SwapProve(t) ==
    /\ pc[t] = "sw_prove"
    /\ workerLock = NoTask
    /\ LET n == req[t].note
           sp == req[t].swap_params
           cr == compute_commitment(n.secret, n.nullifier, n.amount_low, n.amount_high, n.token)
           out == compute_commitment(req[t].output_note.secret, req[t].output_note.nullifier,
                                     sp.amount_out_low, sp.amount_out_high, sp.token_out)
           auth == authenticate(commitments, nullifiers, cr, req[t].leaf_index)
           change == change_commitment(req[t].change_note, n.amount_low, sp.amount_in, n.token)
           l == [loc[t] EXCEPT !.nullifier_hash = cr.nullifier_hash]
       IN  \/ /\ UNCHANGED faults
              /\ IF auth # "Ok"
                 THEN Finish(t, auth, l)
                 ELSE IF \/ ~worker_has_leaf(tree, req[t].leaf_index)
                         \/ field_value(sp.amount_in) > field_value(n.amount_low)
                 THEN Finish(t, "ProverError", l)
                 ELSE Goto(t, "sw_submit",
                           [l EXCEPT !.proofs = @ + 1,
                                     !.pending = <<out.commitment>>
                                         \o (IF appended(change) THEN <<change>> ELSE <<>>)])
           \/ /\ Fault
              /\ Finish(t, "ProverError", loc[t])
    /\ UNCHANGED <<dbVars, tree, workerLock, relayer, serial, watch, wk, sync, chainVars, req>>

\* lines 125-132: relayer.shielded_swap(..)
SwapSubmit(t) ==
    /\ pc[t] = "sw_submit"
    /\ SpendTx(t, <<loc[t].nullifier_hash>>, loc[t].pending, "swap_tx", "sw_nullifier")
    /\ UNCHANGED <<dbVars, tree, workerLock, relayer, serial, watch, wk, sync, req>>

\* lines 135-137: insert_nullifier(hash, "swap", Some(&tx_hash))
SwapNullifier(t) ==
    /\ pc[t] = "sw_nullifier"
    /\ nullifiers' = insert_nullifier(nullifiers, loc[t].nullifier_hash, "swap", loc[t].tx)
    /\ Goto(t, "sw_leaf_index", loc[t])
    /\ UNCHANGED <<commitments, merkle_roots, sync_state, tree, workerLock, relayer, serial, watch, wk, sync,
                   chainVars, req, faults>>

Swap(t, inputs) ==
    \/ \E r \in inputs : r.op = "swap" /\ SwapStart(t, r)
    \/ SwapProve(t)
    \/ SwapSubmit(t)
    \/ SwapNullifier(t)
    \* lines 148-152 and 161: worker.lock(); get_leaf_count
    \/ NextLeafIndex(t, "sw_leaf_index", "sw_insert")
    \* lines 153-156 and 162-169: insert_commitment, insert_leaf; drop(worker)
    \/ InsertPending(t, "sw_insert", "sw_leaf_index", "sw_new_count")
    \* line 172
    \/ NewCount(t, "sw_new_count", "sw_insert_root")
    \* lines 173-192: insert_root; submit_merkle_root; the response
    \/ RecordRoot(t, "sw_insert_root")

(***************************************************************************)
(* api/handlers/mint.rs                                                    *)
(***************************************************************************)
TICK_OFFSET == 887272

\* ((tick + TICK_OFFSET) as u32) as i32, lines 115-116 and 123-124.  The sum
\* is taken in 32 bits (it wraps past i32::MAX); the u32 is its top bit and
\* its low 31 bits; the i32 is read back from them.
unsigned_tick(tick) ==
    LET sum == IF tick > 2147483647 - TICK_OFFSET
               THEN ((tick - 2147483647) + (TICK_OFFSET - 1)) - 2147483647 - 1
               ELSE tick + TICK_OFFSET
        as_u32 == IF sum < 0 THEN [top |-> 1, low |-> (sum + 2147483647) + 1]
                  ELSE [top |-> 0, low |-> sum]
    IN  IF as_u32.top = 1 THEN (as_u32.low - 2147483647) - 1 ELSE as_u32.low

validate_mint_request(r) ==
    /\ \A n \in {r.note0, r.note1} :
          /\ validate_secret(n.secret)
          /\ validate_secret(n.nullifier)
          /\ validate_decimal(n.amount_low)
          /\ validate_decimal(n.amount_high)
          /\ validate_address(n.token)
    /\ validate_secret(r.position.secret)
    /\ validate_secret(r.position.nullifier)
    /\ validate_decimal(r.position.liquidity)
    /\ validate_tick_range(r.position.tick_lower, r.position.tick_upper)
    /\ validate_decimal(r.amounts.amount0_low)
    /\ validate_decimal(r.amounts.amount0_high)
    /\ validate_decimal(r.amounts.amount1_low)
    /\ validate_decimal(r.amounts.amount1_high)
    /\ validate_secret(r.change_note_0.secret)
    /\ validate_secret(r.change_note_0.nullifier)
    /\ validate_secret(r.change_note_1.secret)
    /\ validate_secret(r.change_note_1.nullifier)
    /\ validate_address(r.pool_key.token_0)
    /\ validate_address(r.pool_key.token_1)
    /\ r.liquidity # 0

\* line 56
MintStart(t, r) ==
    /\ Idle(t)
    /\ Begin(t, r)
    /\ IF validate_mint_request(r)
       THEN Goto(t, "mint_prove", Entry(r))
       ELSE Finish(t, "InvalidInput", LocInit)
    /\ UNCHANGED <<dbVars, tree, workerLock, relayer, serial, watch, wk, sync, chainVars, faults>>

\* lines 64-170: under the worker lock: both input notes authenticated in turn,
\* two get_proof, the position commitment on the offset ticks,
\* generate_proof("mint"); drop.  publicSignals[0], [1] are the change commitments.
MintProve(t) ==
    /\ pc[t] = "mint_prove"
    /\ workerLock = NoTask
    /\ LET n0 == req[t].note0
           n1 == req[t].note1
           p == req[t].position
           a == req[t].amounts
           input0 == compute_commitment(n0.secret, n0.nullifier, n0.amount_low, n0.amount_high, n0.token)
           input1 == compute_commitment(n1.secret, n1.nullifier, n1.amount_low, n1.amount_high, n1.token)
           auth0 == authenticate(commitments, nullifiers, input0, req[t].leaf0)
           auth1 == authenticate(commitments, nullifiers, input1, req[t].leaf1)
           position == compute_position_commitment(p.secret, p.nullifier,
                           unsigned_tick(p.tick_lower), unsigned_tick(p.tick_upper), p.liquidity)
           change0 == change_commitment(req[t].change_note_0, n0.amount_low, a.amount0_low, n0.token)
           change1 == change_commitment(req[t].change_note_1, n1.amount_low, a.amount1_low, n1.token)
           l == [loc[t] EXCEPT !.nullifier_hash = input0.nullifier_hash,
                               !.nullifier_hash_1 = input1.nullifier_hash]
       IN  \/ /\ UNCHANGED faults
              /\ IF auth0 # "Ok" THEN Finish(t, auth0, l)
                 ELSE IF auth1 # "Ok" THEN Finish(t, auth1, l)
                 ELSE IF \/ ~worker_has_leaf(tree, req[t].leaf0)
                         \/ ~worker_has_leaf(tree, req[t].leaf1)
                         \/ field_value(a.amount0_low) > field_value(n0.amount_low)
                         \/ field_value(a.amount1_low) > field_value(n1.amount_low)
                 THEN Finish(t, "ProverError", l)
                 ELSE Goto(t, "mint_submit",
                           [l EXCEPT !.proofs = @ + 1,
                                     !.pending = (IF appended(change0) THEN <<change0>> ELSE <<>>)
                                         \o (IF appended(change1) THEN <<change1>> ELSE <<>>)
                                         \o <<position.commitment>>])
           \/ /\ Fault
              /\ Finish(t, "ProverError", loc[t])
    /\ UNCHANGED <<dbVars, tree, workerLock, relayer, serial, watch, wk, sync, chainVars, req>>

\* lines 173-180: relayer.shielded_mint(..)
MintSubmit(t) ==
    /\ pc[t] = "mint_submit"
    /\ SpendTx(t, <<loc[t].nullifier_hash, loc[t].nullifier_hash_1>>, loc[t].pending,
               "mint_tx", "mint_nullifier_0")
    /\ UNCHANGED <<dbVars, tree, workerLock, relayer, serial, watch, wk, sync, req>>

\* lines 183-185: insert_nullifier(input0.nullifier_hash, "mint", Some(&tx_hash))
MintNullifier0(t) ==
    /\ pc[t] = "mint_nullifier_0"
    /\ nullifiers' = insert_nullifier(nullifiers, loc[t].nullifier_hash, "mint", loc[t].tx)
    /\ Goto(t, "mint_nullifier_1", loc[t])
    /\ UNCHANGED <<commitments, merkle_roots, sync_state, tree, workerLock, relayer, serial, watch, wk, sync,
                   chainVars, req, faults>>

\* lines 186-188: insert_nullifier(input1.nullifier_hash, "mint", Some(&tx_hash))
MintNullifier1(t) ==
    /\ pc[t] = "mint_nullifier_1"
    /\ nullifiers' = insert_nullifier(nullifiers, loc[t].nullifier_hash_1, "mint", loc[t].tx)
    /\ Goto(t, "mint_leaf_index", loc[t])
    /\ UNCHANGED <<commitments, merkle_roots, sync_state, tree, workerLock, relayer, serial, watch, wk, sync,
                   chainVars, req, faults>>

Mint(t, inputs) ==
    \/ \E r \in inputs : r.op = "mint" /\ MintStart(t, r)
    \/ MintProve(t)
    \/ MintSubmit(t)
    \/ MintNullifier0(t)
    \/ MintNullifier1(t)
    \* lines 198, 203, 213, 222: worker.lock(); get_leaf_count
    \/ NextLeafIndex(t, "mint_leaf_index", "mint_insert")
    \* lines 204-207, 214-217, 223-229: insert_commitment, insert_leaf; drop(worker)
    \/ InsertPending(t, "mint_insert", "mint_leaf_index", "mint_new_count")
    \* line 232
    \/ NewCount(t, "mint_new_count", "mint_insert_root")
    \* lines 233-253: insert_root; submit_merkle_root; the response
    \/ RecordRoot(t, "mint_insert_root")

(***************************************************************************)
(* api/handlers/burn.rs                                                    *)
(***************************************************************************)
validate_burn_request(r) ==
    /\ validate_secret(r.position.secret)
    /\ validate_secret(r.position.nullifier)
    /\ validate_decimal(r.position.liquidity)
    /\ validate_tick_range(r.position.tick_lower, r.position.tick_upper)
    /\ \A n \in {r.output_note_0, r.output_note_1} :
          /\ validate_secret(n.secret)
          /\ validate_secret(n.nullifier)
          /\ validate_decimal(n.amount_low)
          /\ validate_decimal(n.amount_high)
          /\ validate_address(n.token)
    /\ validate_address(r.pool_key.token_0)
    /\ validate_address(r.pool_key.token_1)
    /\ r.liquidity # 0

\* line 49
BurnStart(t, r) ==
    /\ Idle(t)
    /\ Begin(t, r)
    /\ IF validate_burn_request(r)
       THEN Goto(t, "burn_prove", Entry(r))
       ELSE Finish(t, "InvalidInput", LocInit)
    /\ UNCHANGED <<dbVars, tree, workerLock, relayer, serial, watch, wk, sync, chainVars, faults>>

\* lines 56-127: under the worker lock: get_proof(position_note.leaf_index), the
\* two output commitments, the position commitment, generate_proof("burn"); drop.
\* Neither the stored row nor the nullifier is looked up.
BurnProve(t) ==
    /\ pc[t] = "burn_prove"
    /\ workerLock = NoTask
    /\ LET p == req[t].position
           o0 == req[t].output_note_0
           o1 == req[t].output_note_1
           output0 == compute_commitment(o0.secret, o0.nullifier, o0.amount_low, o0.amount_high, o0.token)
           output1 == compute_commitment(o1.secret, o1.nullifier, o1.amount_low, o1.amount_high, o1.token)
           position == compute_position_commitment(p.secret, p.nullifier,
                           unsigned_tick(p.tick_lower), unsigned_tick(p.tick_upper), p.liquidity)
           l == [loc[t] EXCEPT !.nullifier_hash = position.nullifier_hash]
       IN  \/ /\ UNCHANGED faults
              /\ IF ~worker_has_leaf(tree, req[t].leaf_index)
                 THEN Finish(t, "ProverError", l)
                 ELSE Goto(t, "burn_submit",
                           [l EXCEPT !.proofs = @ + 1,
                                     !.pending = <<output0.commitment, output1.commitment>>])
           \/ /\ Fault
              /\ Finish(t, "ProverError", loc[t])
    /\ UNCHANGED <<dbVars, tree, workerLock, relayer, serial, watch, wk, sync, chainVars, req>>

\* lines 130-137: relayer.shielded_burn(..)
BurnSubmit(t) ==
    /\ pc[t] = "burn_submit"
    /\ SpendTx(t, <<loc[t].nullifier_hash>>, loc[t].pending, "burn_tx", "burn_nullifier")
    /\ UNCHANGED <<dbVars, tree, workerLock, relayer, serial, watch, wk, sync, req>>

\* the root stored and submitted whether or not a leaf was inserted
BurnNullifier_no_leaves(t) ==
    /\ pc[t] = "burn_nullifier"
    /\ nullifiers' = insert_nullifier(nullifiers, loc[t].nullifier_hash, "burn", loc[t].tx)
    /\ Goto(t, "burn_new_count", loc[t])
    /\ UNCHANGED <<commitments, merkle_roots, sync_state, tree, workerLock, relayer, serial, watch, wk, sync,
                   chainVars, req, faults>>

\* lines 140-142: insert_nullifier(position.nullifier_hash, "burn", Some(&tx_hash));
\* lines 149, 159: an output commitment that is empty or "0" is not appended
BurnNullifier(t) ==
    /\ pc[t] = "burn_nullifier"
    /\ nullifiers' = insert_nullifier(nullifiers, loc[t].nullifier_hash, "burn", loc[t].tx)
    /\ LET l == [loc[t] EXCEPT !.pending = SelectSeq(@, appended)]
       IN  IF l.pending = <<>>
           THEN Finish(t, "Ok", l)
           ELSE Goto(t, "burn_leaf_index", l)
    /\ UNCHANGED <<commitments, merkle_roots, sync_state, tree, workerLock, relayer, serial, watch, wk, sync,
                   chainVars, req, faults>>

Burn(t, inputs) ==
    \/ \E r \in inputs : r.op = "burn" /\ BurnStart(t, r)
    \/ BurnProve(t)
    \/ BurnSubmit(t)
    \/ BurnNullifier(t)
    \* lines 145, 150, 160: worker.lock(); get_leaf_count
    \/ NextLeafIndex(t, "burn_leaf_index", "burn_insert")
    \* lines 151-155, 161-168: insert_commitment, insert_leaf; drop(worker)
    \/ InsertPending(t, "burn_insert", "burn_leaf_index", "burn_new_count")
    \* line 172
    \/ NewCount(t, "burn_new_count", "burn_insert_root")
    \* lines 173-193: insert_root; submit_merkle_root; the response
    \/ RecordRoot(t, "burn_insert_root")

(***************************************************************************)
(* sync/events.rs: the background task start_event_sync runs sync_once,    *)
(* sleeps, and runs it again; a failed cycle is logged and retried.        *)
(***************************************************************************)
\* lines 22-29: the decimal string of a u256 read from two felts
felts_to_decimal(value) == to_str_radix(value, 10)

\* the stored cursor not read: every cycle scans from the first block
last_block_unread(tbl) == 0

\* and_then(|s| s.parse::<u64>().ok()).unwrap_or(0), lines 253-257
last_block(tbl) ==
    IF ~has_sync_state(tbl, "last_block") THEN 0
    ELSE IF from_str_radix(tbl["last_block"], 10) = Err THEN 0
    ELSE from_str_radix(tbl["last_block"], 10)

\* sync_once without its guard: every cycle polls and writes the cursor
up_to_date_never(latest_block, last_synced) == FALSE

\* line 259: nothing to do
up_to_date(latest_block, last_synced) == latest_block <= last_synced

SyncIdle ==
    [pc |-> "sleep", latest_block |-> 0, last_synced |-> 0, new_leaves |-> <<>>,
     new_nullifiers |-> <<>>, new_commitments |-> 0, leaf_count |-> 0, root |-> <<>>,
     failed |-> FALSE]

\* get_events asked from the block after from_block
EventsIn_skip_first(from_block, to_block) ==
    SelectSeq(chainEvents, LAMBDA e : from_block < e.block /\ e.block <= to_block)

\* the events of blocks from_block..to_block, in order
EventsIn(from_block, to_block) ==
    SelectSeq(chainEvents, LAMBDA e : from_block <= e.block /\ e.block <= to_block)

\* every CommitmentAdded event collected, a row at its index or not
NewLeaves_unfiltered(events) ==
    LET added == SelectSeq(events, LAMBDA e : e.kind = "CommitmentAdded")
    IN  [i \in 1..Len(added) |->
            [leaf_index |-> added[i].leaf_index, commitment |-> felts_to_decimal(added[i].value)]]

\* lines 125-134: the CommitmentAdded events whose leaf_index has no row
NewLeaves(events) ==
    LET added == SelectSeq(events, LAMBDA e : /\ e.kind = "CommitmentAdded"
                                              /\ ~has_commitment(commitments, e.leaf_index))
    IN  [i \in 1..Len(added) |->
            [leaf_index |-> added[i].leaf_index, commitment |-> felts_to_decimal(added[i].value)]]

\* lines 135-141: the NullifierSpent events whose hash has no row
NewNullifiers(events) ==
    LET spent == SelectSeq(events, LAMBDA e : /\ e.kind = "NullifierSpent"
                                              /\ ~is_nullifier_spent(nullifiers, felts_to_decimal(e.value)))
    IN  [i \in 1..Len(spent) |-> felts_to_decimal(spent[i].value)]

\* sync_once lines 248-261: block_number (the node may answer with a block it
\* saw earlier), the cursor, the guard
SyncBegin ==
    /\ sync.pc = "sleep"
    /\ \/ /\ \E latest_block \in 0..chainHead :
                LET last_synced == last_block(sync_state)
                IN  sync' = IF up_to_date(latest_block, last_synced)
                            THEN SyncIdle
                            ELSE [SyncIdle EXCEPT !.pc = "poll",
                                                  !.latest_block = latest_block,
                                                  !.last_synced = last_synced]
          /\ UNCHANGED faults
       \/ /\ Fault
          /\ sync' = SyncIdle
    /\ UNCHANGED <<dbVars, tree, workerLock, relayer, serial, watch, wk, chainVars, taskVars>>

\* poll_events lines 102-148: get_events over from_block..latest_block, each
\* event filtered against the Store as it is read
SyncPoll ==
    /\ sync.pc = "poll"
    /\ \/ /\ LET events == EventsIn(sync.last_synced + 1, sync.latest_block)
                 new_leaves == NewLeaves(events)
                 new_nullifiers == NewNullifiers(events)
             IN  sync' = [sync EXCEPT !.new_leaves = new_leaves,
                                      !.new_nullifiers = new_nullifiers,
                                      !.new_commitments = Len(new_leaves),
                                      !.pc = IF new_leaves # <<>> THEN "apply"
                                             ELSE IF new_nullifiers # <<>> THEN "nullifiers"
                                             ELSE "cursor"]
          /\ UNCHANGED faults
       \/ /\ Fault
          /\ sync' = SyncIdle
    /\ UNCHANGED <<dbVars, tree, workerLock, relayer, serial, watch, wk, chainVars, taskVars>>

\* lines 151-161: under one hold of the worker lock, for each new leaf
\* insert_commitment(leaf_index, commitment, None) then worker.insert_leaf
SyncApply ==
    /\ sync.pc = "apply"
    /\ workerLock \in {NoTask, "sync"}
    /\ LET leaf == Head(sync.new_leaves)
       IN  /\ commitments' = insert_commitment(commitments, leaf.leaf_index, leaf.commitment, NoTx)
           /\ \/ /\ ~tree_full(tree)
                 /\ tree' = worker_insert_leaf(tree, leaf.commitment)
                 /\ sync' = [sync EXCEPT !.new_leaves = Tail(@),
                                         !.pc = IF Tail(sync.new_leaves) # <<>> THEN "apply"
                                                ELSE IF sync.new_nullifiers # <<>> THEN "nullifiers"
                                                ELSE "root_count"]
                 /\ workerLock' = IF Tail(sync.new_leaves) # <<>> THEN "sync" ELSE NoTask
                 /\ UNCHANGED faults
              \/ /\ IF tree_full(tree) THEN UNCHANGED faults ELSE Fault
                 /\ sync' = SyncIdle
                 /\ workerLock' = NoTask
                 /\ UNCHANGED tree
    /\ UNCHANGED <<merkle_roots, nullifiers, sync_state, relayer, serial, watch, wk, chainVars, taskVars>>

\* lines 164-167: insert_nullifier(nullifier, "synced", None) for each new one
SyncNullifier ==
    /\ sync.pc = "nullifiers"
    /\ nullifiers' = insert_nullifier(nullifiers, Head(sync.new_nullifiers), "synced", NoTx)
    /\ sync' = [sync EXCEPT !.new_nullifiers = Tail(@),
                            !.pc = IF Tail(sync.new_nullifiers) # <<>> THEN "nullifiers"
                                   ELSE IF sync.new_commitments > 0 THEN "root_count"
                                   ELSE "cursor"]
    /\ UNCHANGED <<commitments, merkle_roots, sync_state, tree, workerLock, relayer, serial, watch, wk,
                   chainVars, taskVars, faults>>

\* submit_root_if_changed lines 174-177
SyncRootCount ==
    /\ sync.pc = "root_count"
    /\ LET leaf_count == get_leaf_count(commitments)
       IN  sync' = [sync EXCEPT !.leaf_count = leaf_count,
                                !.pc = IF leaf_count = 0 THEN "cursor" ELSE "root_read"]
    /\ UNCHANGED <<dbVars, tree, workerLock, relayer, serial, watch, wk, chainVars, taskVars, faults>>

\* the root submitted whether it differs from the latest root or not
SyncRootRead_always_submit ==
    /\ sync.pc = "root_read"
    /\ workerLock = NoTask
    /\ \/ /\ sync' = [sync EXCEPT !.root = merkle_root(tree), !.pc = "root_submit"]
          /\ UNCHANGED faults
       \/ /\ Fault
          /\ sync' = [sync EXCEPT !.pc = "cursor", !.failed = TRUE]
    /\ UNCHANGED <<dbVars, tree, workerLock, relayer, serial, watch, wk, chainVars, taskVars>>

\* lines 180-188: worker.lock(); get_root; drop; compared with get_latest_root.
\* sync_once only logs an error of submit_root_if_changed (lines 278-282):
\* failed records that a call of this cycle has failed.
SyncRootRead ==
    /\ sync.pc = "root_read"
    /\ workerLock = NoTask
    /\ \/ /\ LET current_root == merkle_root(tree)
             IN  sync' = [sync EXCEPT !.root = current_root,
                              !.pc = IF /\ has_latest_root(merkle_roots)
                                        /\ get_latest_root(merkle_roots) = current_root
                                     THEN "cursor" ELSE "root_submit"]
          /\ UNCHANGED faults
       \/ /\ Fault
          /\ sync' = [sync EXCEPT !.pc = "cursor", !.failed = TRUE]
    /\ UNCHANGED <<dbVars, tree, workerLock, relayer, serial, watch, wk, chainVars, taskVars>>

\* lines 196-202: relayer.submit_merkle_root(&current_root), then
\* insert_root(&current_root, leaf_count, Some(&tx_hash))
SyncRootSubmit ==
    /\ sync.pc = "root_submit"
    /\ \/ /\ merkle_roots' = insert_root(merkle_roots, sync.root, sync.leaf_count, "root_tx")
          /\ sync' = [sync EXCEPT !.pc = "cursor"]
          /\ UNCHANGED faults
       \/ /\ relayer = "Starknet"
          /\ Fault
          /\ sync' = [sync EXCEPT !.pc = "cursor", !.failed = TRUE]
          /\ UNCHANGED merkle_roots
    /\ UNCHANGED <<commitments, nullifiers, sync_state, tree, workerLock, relayer, serial, watch, wk,
                   chainVars, taskVars>>

\* sync_once lines 284-286: set_sync_state("last_block", latest_block.to_string())
SyncCursor ==
    /\ sync.pc = "cursor"
    /\ sync_state' = set_sync_state(sync_state, "last_block", to_str_radix(sync.latest_block, 10))
    /\ sync' = SyncIdle
    /\ UNCHANGED <<commitments, merkle_roots, nullifiers, tree, workerLock, relayer, serial, watch, wk,
                   chainVars, taskVars, faults>>

Sync ==
    \/ SyncBegin
    \/ SyncPoll
    \/ SyncApply
    \/ SyncNullifier
    \/ SyncRootCount
    \/ SyncRootRead
    \/ SyncRootSubmit
    \/ SyncCursor

(***************************************************************************)
(* The chain also carries what others send to the coordinator: a deposit   *)
(* made through another service, a note spent through another service.     *)
(***************************************************************************)
PeerDeposit ==
    /\ \E v \in {9} : Mined(<<CommitmentAdded(chainLeaves, v)>>)
    /\ chainLeaves' = chainLeaves + 1
    /\ UNCHANGED <<dbVars, tree, workerLock, relayer, serial, watch, wk, sync, taskVars, faults>>

PeerSpend ==
    /\ \E n \in {NoteA} :
          LET v == from_str_radix(compute_commitment(n.secret, n.nullifier, n.amount_low,
                                      n.amount_high, n.token).nullifier_hash, 10)
          IN  /\ ~SpentOnChain(v)
              /\ Mined(<<NullifierSpent(v)>>)
    /\ UNCHANGED <<dbVars, tree, workerLock, relayer, serial, watch, wk, sync, chainLeaves, taskVars, faults>>

(***************************************************************************)
(* prover/worker.rs: the worker process behind AppState.worker.  A client  *)
(* (a request task or the syncer) locks the mutex, runs send_command any   *)
(* number of times, and drops the guard.  send_command writes one request  *)
(* line carrying a fresh id to the worker's stdin and reads one line from  *)
(* its stdout.  The worker answers each request line with one line; it may *)
(* malfunction (a line that is no JSON, another id) and it may exit.       *)
(***************************************************************************)
Clients == Tasks \cup {"sync"}

WkInit ==
    [alive |-> TRUE, ids |-> 0, stdin |-> <<>>, stdout |-> <<>>,
     at |-> [c \in Clients |-> "out"], id |-> [c \in Clients |-> 0],
     result |-> [c \in Clients |-> "none"], line |-> [c \in Clients |-> "none"],
     mismatched |-> FALSE]

\* the lines a worker may answer the request id with
Answers(id) ==
    {[kind |-> "json", id |-> id, ok |-> TRUE],
     [kind |-> "json", id |-> id, ok |-> FALSE],
     [kind |-> "json", id |-> 0, ok |-> TRUE],
     [kind |-> "garbage", id |-> 0, ok |-> FALSE]}

\* read_line at end of file leaves the line empty
EndOfFile == [kind |-> "eof", id |-> 0, ok |-> FALSE]

\* what a response line is called in wk.line
line_case(line, id) ==
    IF line.kind # "json" THEN line.kind
    ELSE IF line.id # id THEN "id_mismatch"
    ELSE IF ~line.ok THEN "ok_false" ELSE "ok_true"

\* send_command lines 107-123: the line parsed, the id compared, ok looked at
response_result(line, id) ==
    IF line.kind # "json" THEN "WorkerUnavailable"
    ELSE IF line.id # id THEN "Internal"
    ELSE IF ~line.ok THEN "ProverError"
    ELSE "Ok"

\* a mutex that lets every caller in
lock_free_always(holder) == TRUE

\* tokio::sync::Mutex::lock: granted when no guard is alive
lock_free(holder) == holder = NoTask

\* state.worker.lock().await
WorkerLock(c) ==
    /\ wk.at[c] = "out"
    /\ lock_free(workerLock)
    /\ wk.ids < MaxCommands
    /\ workerLock' = c
    /\ wk' = [wk EXCEPT !.at[c] = "held"]
    /\ UNCHANGED <<dbVars, tree, relayer, serial, watch, sync, chainVars, taskVars, faults>>

\* send_command lines 81-99: a fresh id, the request line written and flushed;
\* writing to a worker that has exited fails
SendWrite(c) ==
    /\ wk.at[c] = "held"
    /\ wk.ids < MaxCommands
    /\ LET id == wk.ids + 1
       IN  wk' = IF wk.alive
                 THEN [wk EXCEPT !.ids = id, !.id[c] = id, !.stdin = Append(@, id),
                                 !.at[c] = "sent", !.result[c] = "none", !.line[c] = "none"]
                 ELSE [wk EXCEPT !.ids = id, !.id[c] = id,
                                 !.result[c] = "WorkerUnavailable", !.line[c] = "write_failed"]
    /\ UNCHANGED <<dbVars, tree, workerLock, relayer, serial, watch, sync, chainVars, taskVars, faults>>

\* send_command lines 101-123: one line read and judged
SendRead(c) ==
    /\ wk.at[c] = "sent"
    /\ wk.stdout # <<>> \/ ~wk.alive
    /\ LET line == IF wk.stdout # <<>> THEN Head(wk.stdout) ELSE EndOfFile
       IN  wk' = [wk EXCEPT !.stdout = IF @ # <<>> THEN Tail(@) ELSE @,
                            !.at[c] = "held",
                            !.result[c] = response_result(line, wk.id[c]),
                            !.line[c] = line_case(line, wk.id[c]),
                            !.mismatched = @ \/ line_case(line, wk.id[c]) = "id_mismatch"]
    /\ UNCHANGED <<dbVars, tree, workerLock, relayer, serial, watch, sync, chainVars, taskVars, faults>>

\* drop(worker)
WorkerUnlock(c) ==
    /\ wk.at[c] = "held"
    /\ workerLock' = NoTask
    /\ wk' = [wk EXCEPT !.at[c] = "out"]
    /\ UNCHANGED <<dbVars, tree, relayer, serial, watch, sync, chainVars, taskVars, faults>>

\* the worker answers the oldest request line it has not read
WorkerAnswer ==
    /\ wk.alive
    /\ wk.stdin # <<>>
    /\ \E line \in Answers(Head(wk.stdin)) :
          wk' = [wk EXCEPT !.stdin = Tail(@), !.stdout = Append(@, line)]
    /\ UNCHANGED <<dbVars, tree, workerLock, relayer, serial, watch, sync, chainVars, taskVars, faults>>

\* the worker process exits
WorkerExit ==
    /\ wk.alive
    /\ wk' = [wk EXCEPT !.alive = FALSE]
    /\ UNCHANGED <<dbVars, tree, workerLock, relayer, serial, watch, sync, chainVars, taskVars, faults>>

WorkerProtocol ==
    \/ \E c \in Clients : WorkerLock(c) \/ SendWrite(c) \/ SendRead(c) \/ WorkerUnlock(c)
    \/ WorkerAnswer
    \/ WorkerExit

(***************************************************************************)
(* StarknetRelayer::send_transaction and watch_tx (relayer/starknet.rs):   *)
(* one transaction sent, then its receipt polled.  watch.receipt is what   *)
(* the network holds for the transaction, watch.got what the last          *)
(* get_transaction_receipt returned.                                       *)
(***************************************************************************)
\* let max_retries = 60
max_retries == 60

\* a Reverted receipt taken for a transaction not yet included
watch_tx_match_retry(got) == IF got = "Succeeded" THEN "Ok" ELSE "retry"

\* the match of lines 303-326: Ok(receipt) by its status, Err(_) sleeps
watch_tx_match(got) ==
    CASE got = "Succeeded" -> "Ok"
      [] got = "Reverted"  -> "TransactionReverted"
      [] got = "Err"       -> "retry"

\* lines 216-222: execution.send(), whose error is TransactionFailed
send_transaction ==
    /\ watch.pc = "idle"
    /\ \/ watch' = [watch EXCEPT !.pc = "poll"]
       \/ watch' = [watch EXCEPT !.pc = "done", !.result = "TransactionFailed"]
    /\ UNCHANGED <<dbVars, tree, workerLock, relayer, serial, wk, sync, chainVars, taskVars, faults>>

\* the network includes the transaction: its receipt says Succeeded or Reverted
Included ==
    /\ watch.pc = "poll"
    /\ watch.receipt = "none"
    /\ \E status \in {"Succeeded", "Reverted"} : watch' = [watch EXCEPT !.receipt = status]
    /\ UNCHANGED <<dbVars, tree, workerLock, relayer, serial, wk, sync, chainVars, taskVars, faults>>

\* one turn of `for _ in 0..max_retries` (lines 303-327), or the Err after
\* the loop (lines 329-333); get_transaction_receipt fails when there is no
\* receipt yet, and may fail for any other reason of the provider
watch_tx ==
    /\ watch.pc = "poll"
    /\ IF watch.polls < max_retries
       THEN \E got \in {"Err"} \cup ({watch.receipt} \ {"none"}) :
                LET outcome == watch_tx_match(got)
                    polled == [watch EXCEPT !.polls = @ + 1, !.got = got]
                IN  watch' = IF outcome = "retry"
                             THEN polled
                             ELSE [polled EXCEPT !.pc = "done", !.result = outcome]
       ELSE watch' = [watch EXCEPT !.pc = "done", !.result = "TransactionFailed"]
    /\ UNCHANGED <<dbVars, tree, workerLock, relayer, serial, wk, sync, chainVars, taskVars, faults>>

(***************************************************************************)
(* The service after start-up (main.rs): the Store as the last run left    *)
(* it, the worker tree rebuilt from it, no request running.                *)
(***************************************************************************)
EmptyFn == [x \in {} |-> x]

\* a Store that earlier runs filled: NoteA and NoteB deposited and synced
StoreAB == (0 :> [commitment |-> <<"3">>, deposit_tx |-> "deposit_tx"])
           @@ (1 :> [commitment |-> <<"7">>, deposit_tx |-> "deposit_tx"])

InitWith(filled, impl, one_by_one) ==
    /\ relayer = impl
    /\ serial = one_by_one
    /\ commitments = IF filled THEN StoreAB ELSE EmptyFn
    /\ tree = get_all_commitments(commitments)
    /\ merkle_roots = IF filled
                      THEN <<[root |-> merkle_root(tree), leaf_count |-> 2, submit_tx |-> "root_tx"]>>
                      ELSE <<>>
    /\ nullifiers = EmptyFn
    /\ sync_state = IF filled THEN ("last_block" :> <<"1">>) ELSE EmptyFn
    /\ chainHead = 1
    /\ chainLeaves = IF filled THEN 2 ELSE 0
    /\ chainEvents = IF filled
                     THEN <<[block |-> 1] @@ CommitmentAdded(0, 3),
                            [block |-> 1] @@ CommitmentAdded(1, 7)>>
                     ELSE <<>>
    /\ workerLock = NoTask
    /\ pc = [t \in Tasks |-> "idle"]
    /\ req = [t \in Tasks |-> NoReq]
    /\ loc = [t \in Tasks |-> LocInit]
    /\ faults = 0
    /\ sync = SyncIdle
    /\ wk = WkInit
    /\ watch = [pc |-> "idle", receipt |-> "none", polls |-> 0, got |-> "none", result |-> ""]

Inputs == DepositInputs \cup WithdrawInputs \cup SwapInputs \cup MintInputs \cup BurnInputs

\* requests a client should not send: an empty commitment, "z" (no number),
\* "12" (hex digits without the 0x), a note at another note's leaf, fields
\* the validators reject
BadInputs ==
    {DepositReq(<<>>), DepositReq(<<"z">>), DepositReq(<<"1", "2">>)}
    \cup {WithdrawReq(NoteA, 1, <<"0", "x", "9">>), WithdrawReq(NoteA, 0, <<"9">>),
          SwapReq([NoteA EXCEPT !.secret = <<>>], 0, <<"1">>, <<"1">>),
          MintReq(NoteA, 0, NoteB, 1, <<"2">>, <<"1">>, Position, 0),
          BurnReq([Position EXCEPT !.tick_lower = 1], 0, NoteA, NoteB, 1)}

TestInputs == Inputs \cup {DepositReq(HexA)} \cup BadInputs

Requests(inputs) ==
    \E t \in Tasks :
        \/ Deposit(t, inputs)
        \/ Withdraw(t, inputs)
        \/ Swap(t, inputs)
        \/ Mint(t, inputs)
        \/ Burn(t, inputs)

Init == \E filled \in BOOLEAN : InitWith(filled, "Starknet", FALSE)

Next ==
    \/ Requests(Inputs)
    \/ Sync
    \/ PeerDeposit
    \/ PeerSpend

Spec == Init /\ [][Next]_vars

(***************************************************************************)
(* The service as tests/integration.rs drives it: requests one at a time,  *)
(* no event-sync task, either relayer, requests of every kind.             *)
(***************************************************************************)
InitTests ==
    \E filled \in BOOLEAN, impl \in {"Mock", "Starknet"} : InitWith(filled, impl, TRUE)

NextTests == Requests(TestInputs)

SpecTests == InitTests /\ [][NextTests]_vars

(***************************************************************************)
(* The service built as tests/integration.rs builds it (a relayer that     *)
(* accepts every transaction, no event-sync task), its clients sending     *)
(* their requests without waiting for one another.                         *)
(***************************************************************************)
ConcurrentInputs == Inputs \cup {DepositReq(HexD)}

SpecConcurrent ==
    /\ \E filled \in BOOLEAN : InitWith(filled, "Mock", FALSE)
    /\ [][Requests(ConcurrentInputs)]_vars

(***************************************************************************)
(* The worker protocol watched on its own: the clients send commands, the  *)
(* worker answers, malfunctions or exits.                                  *)
(***************************************************************************)
SpecWorker == InitWith(TRUE, "Starknet", FALSE) /\ [][WorkerProtocol]_vars

\* main.rs 30-45 and 67-72, on a Store an earlier run has left: the process
\* is stopped, the requests in flight with it, and started again: a new
\* worker, build_tree(get_all_commitments()) if there are any, the root
\* logged; then the syncer is spawned and the router serves
main ==
    /\ Fault
    /\ tree' = get_all_commitments(commitments)
    /\ workerLock' = NoTask
    /\ pc' = [t \in Tasks |-> IF pc[t] = "idle" THEN "idle" ELSE "done"]
    /\ loc' = [t \in Tasks |-> IF pc[t] \in {"idle", "done"} THEN loc[t]
                               ELSE [loc[t] EXCEPT !.result = "Aborted"]]
    /\ sync' = SyncIdle
    /\ UNCHANGED <<dbVars, relayer, serial, watch, wk, chainVars, req>>

\* the service of the tests' relayer on a Store and a tree two leaves short
\* of the tree's capacity: NoteA, NoteB and other notes
InitFull ==
    /\ relayer = "Mock"
    /\ serial = FALSE
    /\ commitments = [i \in 0..(TreeCapacity - 3) |->
                         IF i \in DOMAIN StoreAB THEN StoreAB[i]
                         ELSE [commitment |-> <<"9">>, deposit_tx |-> "deposit_tx"]]
    /\ tree = get_all_commitments(commitments)
    /\ merkle_roots = <<[root |-> merkle_root(tree), leaf_count |-> Len(tree),
                         submit_tx |-> "root_tx"]>>
    /\ nullifiers = EmptyFn
    /\ sync_state = ("last_block" :> <<"1">>)
    /\ chainHead = 1
    /\ chainLeaves = Len(tree)
    /\ chainEvents = [i \in 1..Len(tree) |->
                         [block |-> 1] @@ CommitmentAdded(i - 1, from_str_radix(tree[i], 10))]
    /\ workerLock = NoTask
    /\ pc = [t \in Tasks |-> "idle"]
    /\ req = [t \in Tasks |-> NoReq]
    /\ loc = [t \in Tasks |-> LocInit]
    /\ faults = 0
    /\ sync = SyncIdle
    /\ wk = WkInit
    /\ watch = [pc |-> "idle", receipt |-> "none", polls |-> 0, got |-> "none", result |-> ""]

SpecFull == InitFull /\ [][Requests(ConcurrentInputs)]_vars

\* withdraw.rs 80-85, swap.rs 135-137, mint.rs 183-185, burn.rs 140-142: the
\* request ends between its mined transaction and its insert_nullifier: the
\* Store's write fails (the ? of the call) or the handler's future is dropped
\* at that await
SpendStopped(t) ==
    /\ pc[t] \in {"wd_record", "sw_nullifier", "mint_nullifier_0", "burn_nullifier"}
    /\ Finish(t, "Database", loc[t])
    /\ UNCHANGED <<dbVars, tree, workerLock, relayer, serial, watch, wk, sync, chainVars,
                   req, faults>>

\* the requests that spend a note of the Store, stopped or not
Spend ==
    \E t \in Tasks :
        \/ Withdraw(t, WithdrawInputs)
        \/ Swap(t, SwapInputs)
        \/ SpendStopped(t)

\* the service with its syncer (main.rs 67-70), every task of the runtime
\* scheduled again and again, the node answering block_number with its head
\* again and again
SpecReconcile ==
    /\ InitWith(TRUE, "Starknet", FALSE)
    /\ [][Spend \/ Sync]_vars
    /\ WF_vars(Sync)
    /\ SF_vars(SyncBegin /\ sync'.pc = "poll" /\ sync'.latest_block = chainHead)
    /\ WF_vars(Spend)

\* the syncer beside deposits and what other services send to the chain: the
\* sync task (main.rs 67-70) is scheduled again and again, the node answering
\* block_number with its head again and again
SpecSyncer ==
    /\ InitWith(TRUE, "Starknet", FALSE)
    /\ [][(\E t \in Tasks : Deposit(t, DepositInputs)) \/ PeerDeposit \/ PeerSpend \/ Sync]_vars
    /\ WF_vars(Sync)
    /\ SF_vars(SyncBegin /\ sync'.pc = "poll" /\ sync'.latest_block = chainHead)

\* a handler returning an error value, whichever
ReturnErr(t) ==
    /\ pc[t] = "idle"
    /\ t = "t2" => pc["t1"] # "idle"
    /\ \E e \in AspError : Respond(t, e.kind, e.carried, loc[t])
    /\ UNCHANGED <<dbVars, tree, workerLock, relayer, serial, watch, wk, sync, chainVars,
                   req, faults>>

SpecErrors ==
    /\ InitWith(TRUE, "Mock", FALSE)
    /\ [][\E t \in Tasks : ReturnErr(t)]_vars

\* api/handlers/tree.rs get_root, line 13: state.db.get_leaf_count(); the
\* count is kept in leaf_index
GetRootCount(t) ==
    /\ Idle(t)
    /\ Begin(t, [op |-> "tree_root"])
    /\ Goto(t, "root_latest", [LocInit EXCEPT !.leaf_index = get_leaf_count(commitments)])
    /\ UNCHANGED <<dbVars, tree, workerLock, relayer, serial, watch, wk, sync, chainVars, faults>>

\* lines 14-19: state.db.get_latest_root(); root.unwrap_or_else(|| "0")
GetRootLatest(t) ==
    /\ pc[t] = "root_latest"
    /\ Finish(t, "Ok", [loc[t] EXCEPT !.root = IF has_latest_root(merkle_roots)
                                               THEN get_latest_root(merkle_roots)
                                               ELSE <<"0">>])
    /\ UNCHANGED <<dbVars, tree, workerLock, relayer, serial, watch, wk, sync, chainVars,
                   req, faults>>

\* the service as the tests drive it, GET /tree/root among the requests
SpecTree ==
    /\ InitTests
    /\ [][NextTests \/ \E t \in Tasks : GetRootCount(t) \/ GetRootLatest(t)]_vars

\* deposit.rs 67-87: a 0x-prefixed hex string of one or two digits (zero,
\* leading zeros, digits of either case) converted by commitment_to_decimal,
\* the decimal converted back by decimal_to_hex
RoundTrip(t) ==
    /\ Idle(t)
    /\ \E n \in 1..2 : \E digits \in [1..n -> {"0", "1", "9", "a", "A", "f", "F"}] :
          LET x == <<"0", "x">> \o digits
              dec == commitment_to_decimal(x)
          IN  /\ Begin(t, [op |-> "convert", commitment |-> x])
              /\ Respond(t, "Ok", <<>>, [LocInit EXCEPT !.root = dec.val,
                                                        !.last_root = decimal_to_hex(dec.val)])
    /\ UNCHANGED <<dbVars, tree, workerLock, relayer, serial, watch, wk, sync, chainVars, faults>>

\* validation.rs 79-100 and mint.rs 114-127 (burn.rs 58-93): a pair of i32
\* ticks, the bounds of i32 and of the tick range and their neighbours among
\* them, validated; the offset ticks of an accepted pair are kept as the worker
\* is to get them, in leaf_index and db_leaf_index
TickRange(t) ==
    /\ Idle(t)
    /\ \E lower, upper \in {-2147483647 - 1, -887273, -887272, -1, 0, 1, 887272, 887273, 2147483647} :
          /\ Begin(t, [op |-> "ticks", tick_lower |-> lower, tick_upper |-> upper])
          /\ IF validate_tick_range(lower, upper)
             THEN Finish(t, "Ok", [LocInit EXCEPT !.leaf_index = unsigned_tick(lower),
                                                  !.db_leaf_index = unsigned_tick(upper)])
             ELSE Finish(t, "InvalidInput", LocInit)
    /\ UNCHANGED <<dbVars, tree, workerLock, relayer, serial, watch, wk, sync, chainVars, faults>>

\* the conversions of the handlers, applied to inputs of every shape
SpecPure ==
    /\ InitWith(FALSE, "Mock", FALSE)
    /\ [][\E t \in Tasks : RoundTrip(t) \/ TickRange(t)]_vars

\* the service of the tests' relayer, restarted at some point
SpecRestart ==
    /\ \E filled \in BOOLEAN : InitWith(filled, "Mock", FALSE)
    /\ [][Requests(ConcurrentInputs) \/ main]_vars

\* one transaction of the Starknet relayer; the runtime keeps polling the
\* future that awaits it
SpecWatch ==
    /\ \E filled \in BOOLEAN : InitWith(filled, "Starknet", FALSE)
    /\ [][send_transaction \/ Included \/ watch_tx]_vars
    /\ WF_vars(watch_tx)

(***************************************************************************)
(* Properties.                                                             *)
(***************************************************************************)
\* a deposit between its insert_leaf and its insert_commitment, or any task
\* holding the worker lock across steps, is in the middle of a leaf insertion
Quiescent ==
    /\ workerLock = NoTask
    /\ \A t \in Tasks : pc[t] \notin {"dep_leaf_count", "dep_insert_commitment"}

\* C1: Tree/Store parity.  Whenever no request and no sync cycle is in the
\* middle of a leaf insertion, the worker's leaves are the Store's commitments
\* in leaf_index order.  Stated for runs in which no call has failed.
C1_TreeStoreParity ==
    (Quiescent /\ faults = 0) => tree = get_all_commitments(commitments)

Dense == DOMAIN commitments = 0..(get_leaf_count(commitments) - 1)

RowsKept ==
    \A i \in DOMAIN commitments :
        i \in DOMAIN commitments' /\ commitments'[i] = commitments[i]

\* C2: Dense indices.  The Store's N commitments sit at 0..N-1 before and after
\* every step, and no step changes or removes an existing row.
C2_DenseIndices == [][Dense /\ Dense' /\ RowsKept]_vars

\* rows written by the syncer and by a swap, and a deposit's insert that found
\* its index occupied
C2_Witness ==
    /\ \E i, j \in DOMAIN commitments :
          commitments[i].deposit_tx = NoTx /\ commitments[j].deposit_tx = "swap_tx"
    /\ get_leaf_count(commitments) > 3

SpentBy(t) == {loc[t].nullifier_hash, loc[t].nullifier_hash_1} \ {<<>>}

SameNote(t, u) ==
    /\ t # u
    /\ req[t].op \in {"withdraw", "swap", "mint", "burn"}
    /\ req[u].op \in {"withdraw", "swap", "mint", "burn"}
    /\ SpentBy(t) \cap SpentBy(u) # {}

\* C3: No double-spend under concurrency.  Of two requests spending the same
\* nullifier hash at most one hands a transaction to the relayer, and once one
\* has succeeded the other ends with NullifierAlreadySpent.  Stated for runs in
\* which no call has failed.
C3_NoDoubleSpend ==
    \A t, u \in Tasks :
        (SameNote(t, u) /\ faults = 0) =>
            /\ ~(loc[t].calls > 0 /\ loc[u].calls > 0)
            /\ (pc[t] = "done" /\ pc[u] = "done" /\ loc[t].result = "Ok")
                   => loc[u].result = "NullifierAlreadySpent"

\* C4: Tree-write critical section.  A request holds the worker lock from the
\* insert_leaf / get_leaf_count of its first leaf to the insert_commitment of
\* its last, and so does a sync cycle that has applied a leaf and has more.
C4_TreeWriteCriticalSection ==
    /\ \A t \in Tasks :
          pc[t] \in {"dep_leaf_count", "dep_insert_commitment",
                     "sw_insert", "mint_insert", "burn_insert"} => workerLock = t
    /\ (sync.pc = "apply" /\ Len(sync.new_leaves) < sync.new_commitments)
          => workerLock = "sync"

\* what the request contract asks of each request
well_formed(r) ==
    IF r.op = "deposit" THEN validate_hex_u256(r.commitment)
    ELSE IF r.op = "withdraw" THEN validate_withdraw_request(r)
    ELSE IF r.op = "swap" THEN validate_swap_request(r)
    ELSE IF r.op = "mint" THEN validate_mint_request(r)
    ELSE validate_burn_request(r)

\* no other request is being served or was served after t
LastServed(t) ==
    \A u \in Tasks \ {t} : pc[u] = "idle" \/ (t = "t2" /\ pc[u] = "done")

\* C5: Deposit leaf index.  A successful deposit answers with the number of
\* commitments the Store held when it arrived, the Store holds the decimal
\* commitment at that index, and the count has grown by one.  Stated for
\* well-formed commitments.
C5_DepositLeafIndex ==
    \A t \in Tasks :
        ( /\ req[t].op = "deposit" /\ well_formed(req[t])
          /\ pc[t] = "done" /\ loc[t].result = "Ok" ) =>
            /\ loc[t].db_leaf_index = loc[t].count_before
            /\ has_commitment(commitments, loc[t].count_before)
            /\ commitments[loc[t].count_before].commitment
                   = commitment_to_decimal(req[t].commitment).val
            /\ LastServed(t) => get_leaf_count(commitments) = loc[t].count_before + 1

\* C6: Validation failure is side-effect free.  A request that is not well
\* formed hands nothing to the relayer, never gets past its handler's first
\* relayer or worker call, and ends with InvalidInput.
C6_InvalidInputNoEffect ==
    \A t \in Tasks :
        (req[t].op # "none" /\ ~well_formed(req[t])) =>
            /\ loc[t].calls = 0
            /\ pc[t] \in {"dep_deposit", "done"}
            /\ pc[t] = "done" => loc[t].result = "InvalidInput"

SpendsNote(t) == req[t].op \in {"withdraw", "swap", "mint"}

\* the Store holds the request's note(s) at the leaf index(es) it names
Authentic(t) ==
    LET row(n, i) == /\ has_commitment(commitments, i)
                     /\ commitments[i].commitment =
                            compute_commitment(n.secret, n.nullifier, n.amount_low,
                                               n.amount_high, n.token).commitment
    IN  IF req[t].op = "mint"
        THEN row(req[t].note0, req[t].leaf0) /\ row(req[t].note1, req[t].leaf1)
        ELSE row(req[t].note, req[t].leaf_index)

Inserting(t) ==
    IF pc[t] = "dep_insert_commitment"
    THEN [leaf_index |-> loc[t].db_leaf_index,
          commitment |-> commitment_to_decimal(req[t].commitment).val]
    ELSE [leaf_index |-> loc[t].leaf_index, commitment |-> Head(loc[t].pending)]

\* C8: insert_commitment on an occupied leaf_index.  The Store is unchanged,
\* and when the stored commitment differs from the given one the request ends
\* there with a Conflict error.
C8_OccupiedIndexConflict ==
    [][\A t \in Tasks :
          ( /\ pc[t] \in {"dep_insert_commitment", "sw_insert", "mint_insert", "burn_insert"}
            /\ pc'[t] # pc[t]
            /\ has_commitment(commitments, Inserting(t).leaf_index) ) =>
              /\ commitments' = commitments
              /\ commitments[Inserting(t).leaf_index].commitment # Inserting(t).commitment
                    => (pc'[t] = "done" /\ loc'[t].result = "Conflict")]_vars

\* C9: Nullifier rows are write-once.  Every row of the nullifier table is in
\* the table after every step, with the circuit_type and tx_hash it had.
C9_NullifierWriteOnce ==
    [][\A h \in DOMAIN nullifiers :
          is_nullifier_spent(nullifiers', h) /\ nullifiers'[h] = nullifiers[h]]_vars

\* a withdraw has recorded its nullifier and the row is another writer's
C9_Witness ==
    \E t \in Tasks :
        /\ req[t].op = "withdraw" /\ pc[t] = "done" /\ loc[t].result = "Ok"
        /\ nullifiers[loc[t].nullifier_hash].circuit_type # "membership"

\* C10: Sync cursor monotonicity.  No step lowers the stored last_block, and
\* the step that writes it writes the block number the cycle fetched, which is
\* above the cursor the cycle read, which is the cursor still stored.
C10_CursorMonotonic ==
    [][ /\ last_block(sync_state') >= last_block(sync_state)
        /\ sync_state' # sync_state =>
              /\ sync.pc = "cursor"
              /\ sync.last_synced = last_block(sync_state)
              /\ sync.latest_block > sync.last_synced
              /\ last_block(sync_state') = sync.latest_block
        /\ (sync.pc = "cursor" /\ sync'.pc # "cursor") => sync.latest_block > sync.last_synced
      ]_vars

\* the cursor has caught up with a chain that has grown, after a failed call
C10_Witness ==
    /\ last_block(sync_state) = chainHead
    /\ chainHead > 1
    /\ faults > 0
    /\ sync.pc = "sleep"

\* C11: The sync cursor advances only on full success.  The step that writes
\* last_block belongs to a cycle none of whose calls has failed, and a step in
\* which a call of the cycle fails and the cycle ends leaves last_block alone.
C11_CursorOnlyOnSuccess ==
    [][ /\ sync_state' # sync_state => ~sync.failed
        /\ (faults' # faults /\ sync.pc # "sleep" /\ sync'.pc = "sleep")
              => sync_state' = sync_state ]_vars

AddsLeaves(t) == req[t].op \in {"deposit", "swap", "mint", "burn"}

\* every leaf-adding request that has started has ended with Ok, one has, and
\* the syncer has applied no leaf (it has not got past block 1, whose events
\* the Store held from the start)
LocalLeavesSettled ==
    /\ \A t \in Tasks : AddsLeaves(t) => (pc[t] = "done" /\ loc[t].result = "Ok")
    /\ \E t \in Tasks : AddsLeaves(t)
    /\ sync.pc \in {"sleep", "poll"}
    /\ last_block(sync_state) <= 1
    /\ faults = 0

\* C12: Latest root matches the tree.  Whenever all leaf-adding requests that
\* have started have completed successfully and no leaf came from the syncer,
\* the newest merkle_roots row holds the root of the worker's tree.
C12_LatestRootIsTreeRoot ==
    LocalLeavesSettled =>
        /\ has_latest_root(merkle_roots)
        /\ get_latest_root(merkle_roots) = merkle_root(tree)

\* C13: Root rows carry the right leaf count.  Every merkle_roots row holds the
\* root of the tree's first leaf_count leaves (the tree only grows, so these
\* are the leaves it held when the root was computed); the row a successful
\* deposit wrote has leaf_count one above the leaf_index it answered with.
C13_RootLeafCount ==
    /\ \A i \in 1..Len(merkle_roots) :
          /\ merkle_roots[i].leaf_count <= Len(tree)
          /\ merkle_roots[i].root = merkle_root(SubSeq(tree, 1, merkle_roots[i].leaf_count))
    /\ \A t \in Tasks :
          (req[t].op = "deposit" /\ pc[t] = "done" /\ loc[t].result = "Ok") =>
              \E i \in 1..Len(merkle_roots) :
                  /\ merkle_roots[i].root = loc[t].root
                  /\ merkle_roots[i].leaf_count = loc[t].db_leaf_index + 1

\* C14: Worker id echo.  The command whose response carries another id fails,
\* and once that has happened no request line is written to the worker and no
\* line of it is read.
C14_MismatchTerminatesWorker ==
    [][ /\ \A c \in Clients :
              (wk'.line[c] = "id_mismatch" /\ wk'.at[c] = "held") => wk'.result[c] # "Ok"
        /\ wk.mismatched => (wk'.ids = wk.ids /\ wk'.stdout = wk.stdout) ]_vars

\* C15: Worker failure kinds.  A failed worker command is reported as
\* ProverError or WorkerUnavailable, an ok:false response as ProverError.
C15_WorkerFailureKinds ==
    \A c \in Clients :
        /\ wk.result[c] \in {"none", "Ok", "ProverError", "WorkerUnavailable"}
        /\ wk.line[c] = "ok_false" => wk.result[c] = "ProverError"

InsertionSection(t) ==
    pc[t] \in {"sw_leaf_index", "sw_insert", "mint_leaf_index", "mint_insert",
               "burn_leaf_index", "burn_insert"}

\* C17: Lock discipline.  A step in which a task calls the relayer is taken
\* with the worker lock not in that task's hands, before and after; and the
\* worker lock is only ever held by a task inside its leaf-insertion section
\* (whose steps need no other lock), so no task waits for a lock for ever.
C17_LockDiscipline ==
    [][ /\ \A t \in Tasks :
              loc'[t].calls # loc[t].calls => (workerLock # t /\ workerLock' # t)
        /\ (sync.pc = "root_submit" \/ sync'.pc = "root_submit") => workerLock # "sync"
        /\ \A t \in Tasks : workerLock' = t => InsertionSection(t)'
        /\ workerLock' = "sync" => sync'.pc = "apply" ]_vars

\* a swap has submitted its root while another client was inside its own
\* leaf insertion or about to call the relayer
C17_Witness ==
    \E t \in Tasks :
        /\ req[t].op = "swap" /\ pc[t] = "done" /\ loc[t].result = "Ok" /\ loc[t].calls = 2
        /\ \/ workerLock \notin {NoTask, t}
           \/ sync.pc = "root_submit"

\* C18: Receipt wait.  Once a transaction is sent the wait makes at most
\* max_retries = 60 polls and comes to an end; it ends with success exactly
\* when a poll returned a Succeeded receipt, with TransactionReverted exactly
\* when a poll returned a Reverted receipt, and with TransactionFailed exactly
\* when 60 polls returned no receipt; a poll without a receipt is followed by
\* another poll, a receipt of either status ends the wait in that step.
C18_ReceiptWait ==
    /\ [](watch.polls <= max_retries)
    /\ [](watch.pc = "poll" => <>(watch.pc = "done"))
    /\ [][ watch.pc = "poll" /\ watch'.polls = watch.polls + 1 =>
              /\ watch'.got = "Err" => watch'.pc = "poll"
              /\ watch'.got = "Succeeded" => watch'.pc = "done" /\ watch'.result = "Ok"
              /\ watch'.got = "Reverted" =>
                     watch'.pc = "done" /\ watch'.result = "TransactionReverted" ]_vars
    /\ [][ watch.pc = "poll" /\ watch'.pc = "done" =>
              /\ watch'.result \in {"Ok", "TransactionReverted", "TransactionFailed"}
              /\ watch'.result = "Ok" <=> watch'.got = "Succeeded"
              /\ watch'.result = "TransactionReverted" <=> watch'.got = "Reverted"
              /\ watch'.result = "TransactionFailed" <=>
                     (watch.polls = max_retries /\ watch'.got = "Err"
                      /\ watch'.polls = watch.polls) ]_vars

\* a wait that ended with a Reverted receipt after polls without a receipt
C18_Witness ==
    /\ watch.pc = "done"
    /\ watch.result = "TransactionReverted"
    /\ watch.polls > 1

\* a wait that gave up after all its polls
C18_WitnessTimeout ==
    /\ watch.pc = "done"
    /\ watch.result = "TransactionFailed"
    /\ watch.polls = max_retries

\* C19: On-chain submission failure leaves local state untouched.  For a
\* withdraw, swap, mint or burn request: a step of the request that writes the
\* Store or the tree comes after its spend transaction was accepted; the step
\* in which the spend transaction fails or reverts ends the request with that
\* error after this one relayer call and writes nothing; and a request that
\* has ended takes no further step.
C19_SpendFailureNoLocalWrite ==
    [][ \A t \in Tasks :
          req'[t].op \in {"withdraw", "swap", "mint", "burn"} =>
            /\ (pc'[t] # pc[t] \/ loc'[t] # loc[t]) /\ (dbVars' # dbVars \/ tree' # tree)
                  => loc[t].txs >= 1
            /\ loc[t].result = "none" /\ loc'[t].calls = 1 /\ loc'[t].txs = 0
                  /\ loc[t].calls = 0 =>
                    /\ pc'[t] = "done"
                    /\ loc'[t].result \in {"TransactionFailed", "TransactionReverted"}
                    /\ UNCHANGED <<dbVars, tree>>
            /\ pc[t] = "done" => pc'[t] = "done" /\ loc'[t] = loc[t] ]_vars

\* a swap whose transaction reverted, ended with that error, beside a Store
\* that the other request and the syncer have written
C19_Witness ==
    \E t \in Tasks :
        /\ req[t].op \in {"swap", "mint", "burn"}
        /\ pc[t] = "done"
        /\ loc[t].result = "TransactionReverted"
        /\ loc[t].calls = 1 /\ loc[t].txs = 0
        /\ nullifiers # EmptyFn

\* a spend transaction that failed to be sent or confirmed
C19_WitnessFailed ==
    \E t \in Tasks :
        /\ req[t].op \in {"withdraw", "swap", "mint", "burn"}
        /\ pc[t] = "done"
        /\ loc[t].result = "TransactionFailed"
        /\ loc[t].calls = 1 /\ loc[t].txs = 0

\* C20: Deposit ordering.  A step of a deposit that changes the tree or the
\* Store comes after its deposit transaction was awaited with success; the
\* step in which relayer.deposit fails ends the request and leaves the tree,
\* the commitments and the roots as they were; and a deposit's step writes a
\* root row only when its submit_merkle_root has succeeded, a failed
\* submission leaving the roots as they were.
C20_DepositOrdering ==
    [][ \A t \in Tasks :
          req'[t].op = "deposit" =>
            /\ (pc'[t] # pc[t] \/ loc'[t] # loc[t]) /\ (dbVars' # dbVars \/ tree' # tree)
                  => loc[t].txs >= 1 /\ loc[t].tx = "deposit_tx"
            /\ pc[t] = "dep_deposit" /\ pc'[t] # pc[t] /\ loc'[t].txs = 0 =>
                    /\ pc'[t] = "done"
                    /\ loc'[t].result # "Ok"
                    /\ UNCHANGED <<tree, commitments, merkle_roots>>
            /\ (pc'[t] # pc[t] /\ merkle_roots' # merkle_roots) =>
                    /\ pc[t] = "dep_submit_root"
                    /\ loc'[t].root_tx = "root_tx" /\ loc'[t].result = "Ok"
            /\ (pc[t] = "dep_submit_root" /\ pc'[t] # pc[t] /\ loc'[t].result # "Ok") =>
                    merkle_roots' = merkle_roots ]_vars

\* a deposit whose transaction failed, ended, the other deposit having gone
\* through
C20_Witness ==
    \E t, u \in Tasks :
        /\ req[t].op = "deposit" /\ pc[t] = "done"
        /\ loc[t].result = "TransactionFailed" /\ loc[t].calls = 1 /\ loc[t].txs = 0
        /\ req[u].op = "deposit" /\ pc[u] = "done" /\ loc[u].result = "Ok"

\* a deposit whose leaf is stored and whose root submission failed
C20_WitnessSubmit ==
    \E t \in Tasks :
        /\ req[t].op = "deposit" /\ pc[t] = "done"
        /\ loc[t].result = "TransactionFailed" /\ loc[t].calls = 2 /\ loc[t].txs = 1

\* the rows and leaves one state holds are still held by the next
Kept ==
    /\ SubSeq(merkle_roots', 1, Len(merkle_roots)) = merkle_roots
    /\ SubSeq(tree', 1, Len(tree)) = tree
    /\ \A h \in DOMAIN nullifiers : h \in DOMAIN nullifiers' /\ nullifiers'[h] = nullifiers[h]
    /\ \A i \in DOMAIN commitments : i \in DOMAIN commitments' /\ commitments'[i] = commitments[i]

\* C21: Root insert-then-submit without rollback.  In a swap, mint or burn,
\* the step that calls submit_merkle_root (the request's second relayer call)
\* has appended a leaf, and leaves the row (last_root, leaf_count, tx_hash)
\* as the newest root row whether the submission succeeds or fails; the
\* request writes the roots table in no other step, and ends with that step,
\* so it writes one row; and no step removes a root row, a leaf, a commitment
\* or a nullifier.
C21_RootInsertThenSubmit ==
    [][ /\ Kept
        /\ \A t \in Tasks :
              req'[t].op \in {"swap", "mint", "burn"} =>
                /\ (loc[t].calls = 1 /\ loc'[t].calls = 2) =>
                      /\ loc[t].last_root # <<>>
                      /\ Len(tree) > loc[t].count_before
                      /\ merkle_roots' = Append(merkle_roots,
                              [root |-> loc[t].last_root,
                               leaf_count |-> loc[t].leaf_index,
                               submit_tx |-> loc[t].tx])
                      /\ pc'[t] = "done"
                      /\ loc'[t].result \in {"Ok", "TransactionFailed"}
                /\ (pc'[t] # pc[t] /\ merkle_roots' # merkle_roots) =>
                      (loc[t].calls = 1 /\ loc'[t].calls = 2) ]_vars

\* a request whose root submission failed, its root row, its leaves and its
\* nullifier in place
C21_Witness ==
    \E t \in Tasks :
        /\ req[t].op \in {"swap", "mint", "burn"}
        /\ pc[t] = "done"
        /\ loc[t].result = "TransactionFailed" /\ loc[t].calls = 2
        /\ \E i \in 1..Len(merkle_roots) : merkle_roots[i].root = loc[t].last_root
        /\ nullifiers # EmptyFn

\* the output commitment and the change commitment of a swap request
SwapOutput(r) ==
    compute_commitment(r.output_note.secret, r.output_note.nullifier,
                       r.swap_params.amount_out_low, r.swap_params.amount_out_high,
                       r.swap_params.token_out).commitment

SwapChange(r) ==
    change_commitment(r.change_note, r.note.amount_low, r.swap_params.amount_in, r.note.token)

\* the step of task t appends commitment c as the next leaf of Store and tree
AppendsLeaf(t, c) ==
    /\ loc[t].leaf_index \notin DOMAIN commitments
    /\ commitments' = commitments @@
           (loc[t].leaf_index :> [commitment |-> c, deposit_tx |-> loc[t].tx])
    /\ tree' = Append(tree, c)

\* C22: Swap leaf order.  A swap that has succeeded has its input nullifier
\* recorded as spent; the step that records it follows the accepted
\* transaction and writes kind swap with the swap transaction's hash unless a
\* row for the hash is there already, which it keeps; its first leaf is the output
\* commitment, its second, appended only when the change commitment is
\* neither empty nor "0", is the change commitment, placed right after the
\* output commitment in the Store and in the tree; and it appends no other.
C22_SwapLeafOrder ==
    [][ \A t \in Tasks :
          req'[t].op = "swap" =>
            LET out == SwapOutput(req[t])
                change == SwapChange(req[t])
                nh == loc[t].nullifier_hash
            IN  /\ (pc[t] = "sw_nullifier" /\ pc'[t] # pc[t]) =>
                      /\ loc[t].txs = 1
                      /\ nullifiers' =
                            IF is_nullifier_spent(nullifiers, nh) THEN nullifiers
                            ELSE nullifiers @@
                                 (nh :> [circuit_type |-> "swap", tx_hash |-> "swap_tx"])
                /\ (pc'[t] = "done" /\ loc'[t].result = "Ok") =>
                      is_nullifier_spent(nullifiers', nh)
                /\ (pc[t] = "sw_insert" /\ tree' # tree) =>
                      IF loc[t].last_root = <<>>
                      THEN /\ AppendsLeaf(t, out)
                           /\ pc'[t] = "sw_new_count" <=> ~appended(change)
                      ELSE /\ appended(change)
                           /\ AppendsLeaf(t, change)
                           /\ tree[Len(tree)] = out
                           /\ commitments[loc[t].leaf_index - 1].commitment = out
                           /\ pc'[t] = "sw_new_count"
                /\ (pc'[t] # pc[t] /\ (tree' # tree \/ commitments' # commitments)) =>
                      pc[t] = "sw_insert" ]_vars

\* C22 as stated: the input nullifier of a swap that has succeeded is recorded
\* with kind swap
C22_NullifierKindSwap ==
    \A t \in Tasks :
        (req[t].op = "swap" /\ pc[t] = "done" /\ loc[t].result = "Ok") =>
            /\ is_nullifier_spent(nullifiers, loc[t].nullifier_hash)
            /\ nullifiers[loc[t].nullifier_hash].circuit_type = "swap"

\* a swap that succeeded after appending its output and its change commitment
C22_Witness ==
    \E t \in Tasks :
        /\ req[t].op = "swap" /\ pc[t] = "done" /\ loc[t].result = "Ok"
        /\ appended(SwapChange(req[t]))
        /\ Len(tree) >= loc[t].count_before + 2

\* the commitments of cs that are neither empty nor "0", in their order
RECURSIVE NonZero(_)
NonZero(cs) ==
    IF cs = <<>> THEN <<>>
    ELSE (IF Head(cs) \notin {<<>>, <<"0">>} THEN <<Head(cs)>> ELSE <<>>) \o NonZero(Tail(cs))

\* the step of task t records nullifier hash nh with this kind and transaction,
\* or keeps the row the Store already holds for nh
RecordsNullifier(t, nh, kind) ==
    nullifiers' = IF is_nullifier_spent(nullifiers, nh) THEN nullifiers
                  ELSE nullifiers @@ (nh :> [circuit_type |-> kind, tx_hash |-> loc[t].tx])

\* the step of task t appends the next of the leaves E, right after the one
\* before it, and leaves the insertion section after the last of them
AppendsNextOf(t, E, after) ==
    LET k == Len(E) - Len(loc[t].pending) + 1
    IN  /\ k \in 1..Len(E)
        /\ AppendsLeaf(t, E[k])
        /\ k > 1 => /\ tree[Len(tree)] = E[k - 1]
                    /\ commitments[loc[t].leaf_index - 1].commitment = E[k - 1]
        /\ pc'[t] = after <=> k = Len(E)

\* what a mint request is to append
MintLeaves(r) ==
    NonZero(<<change_commitment(r.change_note_0, r.note0.amount_low,
                                r.amounts.amount0_low, r.note0.token),
              change_commitment(r.change_note_1, r.note1.amount_low,
                                r.amounts.amount1_low, r.note1.token)>>)
    \o <<compute_position_commitment(r.position.secret, r.position.nullifier,
             unsigned_tick(r.position.tick_lower), unsigned_tick(r.position.tick_upper),
             r.position.liquidity).commitment>>

\* C23: Mint effects.  After its transaction was accepted a mint records its
\* first and then its second input nullifier hash, with kind mint and the
\* transaction's hash unless the Store holds a row for the hash already; it
\* then appends, one right after the other, changeCommitment0 if it is not
\* "0" or empty, changeCommitment1 likewise, and the position commitment
\* always and last: between 1 and 3 leaves, and no other; a mint that has
\* succeeded has both hashes spent.
C23_MintEffects ==
    [][ \A t \in Tasks :
          req'[t].op = "mint" =>
            LET E == MintLeaves(req[t])
            IN  /\ (pc[t] = "mint_nullifier_0" /\ pc'[t] # pc[t]) =>
                      /\ loc[t].txs = 1
                      /\ RecordsNullifier(t, loc[t].nullifier_hash, "mint")
                      /\ pc'[t] = "mint_nullifier_1"
                /\ (pc[t] = "mint_nullifier_1" /\ pc'[t] # pc[t]) =>
                      RecordsNullifier(t, loc[t].nullifier_hash_1, "mint")
                /\ (pc'[t] = "done" /\ loc'[t].result = "Ok") =>
                      /\ is_nullifier_spent(nullifiers', loc[t].nullifier_hash)
                      /\ is_nullifier_spent(nullifiers', loc[t].nullifier_hash_1)
                      /\ get_leaf_count(commitments') >= loc[t].count_before + Len(E)
                /\ (pc[t] = "mint_insert" /\ tree' # tree) =>
                      /\ Len(E) \in 1..3
                      /\ AppendsNextOf(t, E, "mint_new_count")
                /\ (pc'[t] # pc[t] /\ (tree' # tree \/ commitments' # commitments)) =>
                      pc[t] = "mint_insert" ]_vars

\* C23 as stated: both input nullifiers of a mint that has succeeded are
\* recorded with kind mint
C23_NullifierKindMint ==
    \A t \in Tasks :
        (req[t].op = "mint" /\ pc[t] = "done" /\ loc[t].result = "Ok") =>
            \A h \in {loc[t].nullifier_hash, loc[t].nullifier_hash_1} :
                is_nullifier_spent(nullifiers, h) /\ nullifiers[h].circuit_type = "mint"

\* a mint that succeeded, one change commitment being "0": two leaves, the
\* position commitment the last of the tree
C23_Witness ==
    \E t \in Tasks :
        /\ req[t].op = "mint" /\ pc[t] = "done" /\ loc[t].result = "Ok"
        /\ Len(MintLeaves(req[t])) = 2
        /\ tree[Len(tree)] = MintLeaves(req[t])[2]

\* what a burn request is to append
BurnLeaves(r) ==
    NonZero(<<compute_commitment(r.output_note_0.secret, r.output_note_0.nullifier,
                  r.output_note_0.amount_low, r.output_note_0.amount_high,
                  r.output_note_0.token).commitment,
              compute_commitment(r.output_note_1.secret, r.output_note_1.nullifier,
                  r.output_note_1.amount_low, r.output_note_1.amount_high,
                  r.output_note_1.token).commitment>>)

WithdrawCommitment(r) ==
    compute_commitment(r.note.secret, r.note.nullifier, r.note.amount_low,
                       r.note.amount_high, r.note.token).commitment

\* C25: Withdraw note check.  When the worker has answered compute_commitment
\* for a validated withdraw, the request ends in that step with
\* CommitmentNotFound if the Store has no row at its leaf_index, and with
\* InvalidInput if the row's commitment is not the computed one; in both cases
\* no proof was generated, no relayer call made, and the Store and the tree
\* are as they were.
C25_WithdrawNoteCheck ==
    [][ \A t \in Tasks :
          (req[t].op = "withdraw" /\ pc[t] = "wd_prove" /\ pc'[t] # pc[t]
           /\ faults' = faults) =>
            LET i == req[t].leaf_index
                missing == ~has_commitment(commitments, i)
                differs == ~missing /\ commitments[i].commitment # WithdrawCommitment(req[t])
            IN  /\ missing => loc'[t].result = "CommitmentNotFound"
                /\ differs => loc'[t].result = "InvalidInput"
                /\ (missing \/ differs) =>
                      /\ pc'[t] = "done"
                      /\ loc'[t].proofs = 0 /\ loc'[t].calls = 0 /\ loc'[t].txs = 0
                      /\ UNCHANGED <<dbVars, tree, chainVars>> ]_vars

\* a withdraw that named a leaf the Store does not hold, ended
C25_Witness ==
    \E t \in Tasks :
        /\ req[t].op = "withdraw" /\ pc[t] = "done"
        /\ loc[t].result = "CommitmentNotFound"
        /\ ~has_commitment(commitments, req[t].leaf_index)
        /\ loc[t].proofs = 0 /\ loc[t].calls = 0

\* a withdraw that named another note's leaf, ended
C25_WitnessMismatch ==
    \E t \in Tasks :
        /\ req[t].op = "withdraw" /\ pc[t] = "done"
        /\ loc[t].result = "InvalidInput"
        /\ has_commitment(commitments, req[t].leaf_index)
        /\ commitments[req[t].leaf_index].commitment # WithdrawCommitment(req[t])
        /\ validate_withdraw_request(req[t])

\* C26: Withdraw frame.  No step of a withdraw changes the commitments
\* table, the worker tree, the roots table or the sync cursor; its one step
\* that writes the nullifiers table is the last of a successful withdraw,
\* follows the accepted verify_membership transaction, and records the note's
\* nullifier hash with kind membership and that transaction's hash, unless the
\* Store holds a row for the hash already, which it keeps.
C26_WithdrawFrame ==
    [][ \A t \in Tasks :
          (req'[t].op = "withdraw" /\ (pc'[t] # pc[t] \/ loc'[t] # loc[t])) =>
            /\ UNCHANGED <<commitments, tree, merkle_roots, sync_state>>
            /\ pc[t] # "wd_record" => nullifiers' = nullifiers
            /\ (pc'[t] = "done" /\ loc'[t].result = "Ok") =>
                  /\ pc[t] = "wd_record"
                  /\ loc[t].tx = "membership_tx" /\ loc[t].txs = 1 /\ loc[t].calls = 1
                  /\ loc[t].nullifier_hash =
                        compute_commitment(req[t].note.secret, req[t].note.nullifier,
                            req[t].note.amount_low, req[t].note.amount_high,
                            req[t].note.token).nullifier_hash
                  /\ RecordsNullifier(t, loc[t].nullifier_hash, "membership")
                  /\ is_nullifier_spent(nullifiers', loc[t].nullifier_hash) ]_vars

\* C26 as stated: a withdraw that has succeeded has recorded its nullifier
\* with kind membership and the verify_membership transaction's hash
C26_RecordsMembershipRow ==
    \A t \in Tasks :
        (req[t].op = "withdraw" /\ pc[t] = "done" /\ loc[t].result = "Ok") =>
            /\ is_nullifier_spent(nullifiers, loc[t].nullifier_hash)
            /\ nullifiers[loc[t].nullifier_hash] =
                  [circuit_type |-> "membership", tx_hash |-> "membership_tx"]

\* a withdraw that succeeded and whose row is in the Store
C26_Witness ==
    \E t \in Tasks :
        /\ req[t].op = "withdraw" /\ pc[t] = "done" /\ loc[t].result = "Ok"
        /\ is_nullifier_spent(nullifiers, loc[t].nullifier_hash)
        /\ nullifiers[loc[t].nullifier_hash].circuit_type = "membership"

\* C27: Startup rebuild.  When the process has started on a Store that holds
\* commitments, the worker tree is the Store's commitments in ascending
\* leaf_index order, and the roots table has a latest root, which is the root
\* of the rebuilt tree.
C27_StartupRebuild ==
    [][ (main /\ commitments # EmptyFn) =>
            /\ tree' = get_all_commitments(commitments')
            /\ has_latest_root(merkle_roots')
            /\ get_latest_root(merkle_roots') = merkle_root(tree') ]_vars

\* the part of C27 about the leaves alone
C27_TreeRebuilt ==
    [][ main => tree' = get_all_commitments(commitments') ]_vars

\* C28: Tree capacity.  Once the tree holds TreeCapacity leaves, the step of
\* a deposit, swap, mint or burn that is to insert a leaf ends the request
\* with TreeFull and adds no commitment row, no leaf and no root row.
C28_TreeFull ==
    [][ \A t \in Tasks :
          (/\ Len(tree) >= TreeCapacity
           /\ pc[t] \in {"dep_insert_leaf", "sw_insert", "mint_insert", "burn_insert"}
           /\ pc'[t] # pc[t]) =>
            /\ pc'[t] = "done"
            /\ loc'[t].result = "TreeFull"
            /\ UNCHANGED <<commitments, tree, merkle_roots>> ]_vars

\* the part of C28 that holds: a full tree gets no further leaf
C28_NoLeafBeyondCapacity == Len(tree) <= TreeCapacity

\* a spend request stopped after its transaction was mined and before its
\* insert_nullifier
StoppedAfterMined(t) ==
    /\ pc[t] = "done"
    /\ loc[t].result = "Database"
    /\ loc[t].tx # NoTx

SyncedRow(nh) ==
    nh # <<>> => /\ is_nullifier_spent(nullifiers, nh)
                 /\ nullifiers[nh].circuit_type = "synced"

\* C29: Reconciliation after a post-mining failure.  A spend request that
\* stops after its transaction was mined and before insert_nullifier ran
\* leads, the syncer scheduled fairly and the chain answering, to a state
\* from which the Store holds each of the request's nullifiers, recorded
\* with kind synced, for ever.
C29_Reconciliation ==
    \A t \in Tasks :
        StoppedAfterMined(t) ~>
            [](SyncedRow(loc[t].nullifier_hash) /\ SyncedRow(loc[t].nullifier_hash_1))

\* reachable: the request was stopped and the syncer has recorded its nullifier
C29_Witness ==
    \E t \in Tasks :
        /\ StoppedAfterMined(t)
        /\ loc[t].nullifier_hash # <<>>
        /\ SyncedRow(loc[t].nullifier_hash)
        /\ sync.pc = "sleep"

\* the status the table of error kinds gives
TableStatus(kind) ==
    IF kind \in {"InvalidInput", "Json"} THEN 400
    ELSE IF kind = "CommitmentNotFound" THEN 404
    ELSE IF kind = "NullifierAlreadySpent" THEN 409
    ELSE IF kind \in {"TreeFull", "ProverError", "WorkerUnavailable"} THEN 503
    ELSE IF kind \in {"TransactionFailed", "TransactionReverted", "RpcError"} THEN 502
    ELSE 500

\* C30: Error kinds map to fixed HTTP statuses.  Every request answered with
\* an error is answered with the status of the error's kind: InvalidInput
\* and Json 400, CommitmentNotFound 404, NullifierAlreadySpent 409, TreeFull,
\* ProverError and WorkerUnavailable 503, TransactionFailed,
\* TransactionReverted and RpcError 502, Config, Database and Internal 500.
C30_ErrorStatus ==
    \A t \in Tasks :
        (pc[t] = "done" /\ loc[t].result \in AspErrorKinds) =>
            loc[t].status = TableStatus(loc[t].result)

\* reachable: two requests answered with errors of different statuses
C30_Witness ==
    /\ pc["t1"] = "done" /\ loc["t1"].result = "TreeFull" /\ loc["t1"].status = 503
    /\ pc["t2"] = "done" /\ loc["t2"].result = "CommitmentNotFound" /\ loc["t2"].status = 404

\* C31: Hex/decimal round trip.  A 0x-prefixed hex string converted to
\* decimal by commitment_to_decimal and back by decimal_to_hex is the string
\* one started from.
C31_RoundTrip ==
    \A t \in Tasks :
        (pc[t] = "done" /\ req[t].op = "convert") => loc[t].last_root = req[t].commitment

\* the part of C31 that holds: the value is kept, and the string comes back
\* in lower case without leading zeros
C31_ValueKept ==
    \A t \in Tasks :
        (pc[t] = "done" /\ req[t].op = "convert") =>
            /\ from_str_radix(strip_prefix(loc[t].last_root), 16)
                  = from_str_radix(strip_prefix(req[t].commitment), 16)
            /\ from_str_radix(loc[t].root, 10) = from_str_radix(strip_prefix(req[t].commitment), 16)
            /\ has_0x_prefix(loc[t].last_root)

\* C32: GET /tree/root reports the Store.  The response carries the number
\* of commitment rows as leaf_count and the root of the last row of the
\* roots log as root, "0" when the log has no row; on an empty Store it is
\* root "0" and leaf_count 0, and after one successful deposit into an empty
\* Store it is leaf_count 1 and a root other than "0".
C32_TreeRoot ==
    /\ [][\A t \in Tasks :
            /\ (pc[t] = "idle" /\ pc'[t] = "root_latest") =>
                   loc'[t].leaf_index = Cardinality(DOMAIN commitments)
            /\ (pc[t] = "root_latest" /\ pc'[t] = "done") =>
                   /\ loc'[t].result = "Ok"
                   /\ loc'[t].leaf_index = Cardinality(DOMAIN commitments)
                   /\ loc'[t].root = IF merkle_roots = <<>> THEN <<"0">>
                                     ELSE merkle_roots[Len(merkle_roots)].root
                   /\ (commitments = EmptyFn /\ merkle_roots = <<>>) =>
                          loc'[t].root = <<"0">> /\ loc'[t].leaf_index = 0
                   /\ (/\ req["t1"].op = "deposit"
                       /\ loc["t1"].result = "Ok"
                       /\ loc["t1"].count_before = 0
                       /\ t = "t2") =>
                          loc'[t].leaf_index = 1 /\ loc'[t].root # <<"0">> ]_vars

\* reachable: the root asked for after one successful deposit into an empty Store
C32_Witness ==
    /\ req["t1"].op = "deposit" /\ loc["t1"].result = "Ok" /\ loc["t1"].count_before = 0
    /\ req["t2"].op = "tree_root" /\ pc["t2"] = "done"
    /\ loc["t2"].leaf_index = 1 /\ loc["t2"].root # <<"0">>

\* reachable: the root asked for on an empty Store
C32_WitnessEmpty ==
    /\ req["t1"].op = "tree_root" /\ pc["t1"] = "done"
    /\ loc["t1"].leaf_index = 0 /\ loc["t1"].root = <<"0">>

\* the events a cycle reads: those of the blocks after the cursor it read, up
\* to the block number it was given
ReadEvents(kind) ==
    {k \in 1..Len(chainEvents) : /\ chainEvents[k].kind = kind
                                 /\ sync.last_synced < chainEvents[k].block
                                 /\ chainEvents[k].block <= sync.latest_block}

\* C33: Sync collection rule.  A cycle collects a CommitmentAdded event
\* (i, c) if and only if the Store has no row at i when the event is read, and
\* a NullifierSpent event if and only if its hash is not spent then.  For each
\* collected leaf it calls insert_commitment(i, c, None) and, the worker
\* answering, appends c to the tree once; for each collected nullifier it
\* calls insert_nullifier with kind synced.  The syncer writes no other
\* commitment or nullifier row and appends no other leaf.
C33_SyncCollection ==
    [][ sync' # sync =>
          /\ (sync.pc = "poll" /\ sync'.pc # "sleep") =>
                /\ {<<l.leaf_index, l.commitment>> :
                        l \in {sync'.new_leaves[k] : k \in 1..Len(sync'.new_leaves)}}
                     = {<<chainEvents[k].leaf_index, to_str_radix(chainEvents[k].value, 10)>> :
                            k \in {j \in ReadEvents("CommitmentAdded") :
                                      chainEvents[j].leaf_index \notin DOMAIN commitments}}
                /\ {sync'.new_nullifiers[k] : k \in 1..Len(sync'.new_nullifiers)}
                     = {to_str_radix(chainEvents[k].value, 10) :
                            k \in {j \in ReadEvents("NullifierSpent") :
                                      to_str_radix(chainEvents[j].value, 10) \notin DOMAIN nullifiers}}
                /\ Len(sync'.new_leaves)
                     = Cardinality({j \in ReadEvents("CommitmentAdded") :
                                       chainEvents[j].leaf_index \notin DOMAIN commitments})
          /\ sync.pc = "apply" =>
                LET leaf == sync.new_leaves[1]
                IN  /\ commitments' =
                          IF leaf.leaf_index \in DOMAIN commitments THEN commitments
                          ELSE commitments @@ (leaf.leaf_index :>
                                   [commitment |-> leaf.commitment, deposit_tx |-> NoTx])
                    /\ faults' = faults => /\ tree' = Append(tree, leaf.commitment)
                                           /\ sync'.new_leaves = Tail(sync.new_leaves)
                    /\ faults' # faults => tree' = tree
          /\ sync.pc # "apply" => UNCHANGED <<commitments, tree>>
          /\ sync.pc = "nullifiers" =>
                LET nh == sync.new_nullifiers[1]
                IN  /\ nullifiers' =
                          IF nh \in DOMAIN nullifiers THEN nullifiers
                          ELSE nullifiers @@ (nh :> [circuit_type |-> "synced", tx_hash |-> NoTx])
                    /\ sync'.new_nullifiers = Tail(sync.new_nullifiers)
          /\ sync.pc # "nullifiers" => UNCHANGED nullifiers ]_vars

\* reachable: a cycle has read one event whose index had a row and one whose
\* index had none, and has mirrored the second
C33_Witness ==
    /\ sync.pc \in {"root_count", "nullifiers"}
    /\ sync.new_commitments > 0
    /\ \E j \in ReadEvents("CommitmentAdded") :
          /\ chainEvents[j].leaf_index \in DOMAIN commitments
          /\ commitments[chainEvents[j].leaf_index].deposit_tx # NoTx
    /\ \E j \in ReadEvents("CommitmentAdded") :
          /\ chainEvents[j].leaf_index \in DOMAIN commitments
          /\ commitments[chainEvents[j].leaf_index].deposit_tx = NoTx
          /\ tree[Len(tree)] = to_str_radix(chainEvents[j].value, 10)

\* C34: Replica agrees with the chain after sync.  When a cycle none of
\* whose calls failed is about to write its cursor, every CommitmentAdded
\* event (i, c) of the blocks it read has the Store row at i holding c and
\* the leaf at position i of the worker tree equal to c.
C34_ReplicaAgrees ==
    (sync.pc = "cursor" /\ ~sync.failed) =>
        \A j \in ReadEvents("CommitmentAdded") :
            LET i == chainEvents[j].leaf_index
                c == to_str_radix(chainEvents[j].value, 10)
            IN  /\ has_commitment(commitments, i)
                /\ commitments[i].commitment = c
                /\ worker_has_leaf(tree, i)
                /\ tree[i + 1] = c

\* the part of C34 that holds: every event read has a row at its index
C34_RowAtEveryIndex ==
    (sync.pc = "cursor" /\ ~sync.failed) =>
        \A j \in ReadEvents("CommitmentAdded") :
            has_commitment(commitments, chainEvents[j].leaf_index)

\* a deposit answered with Ok whose event the syncer has passed: no cycle is
\* running and the cursor has reached the block of the event
DepositSynced(t) ==
    /\ pc[t] = "done"
    /\ req[t].op = "deposit"
    /\ loc[t].result = "Ok"
    /\ sync.pc = "sleep"
    /\ \E j \in 1..Len(chainEvents) :
          /\ chainEvents[j].kind = "CommitmentAdded"
          /\ chainEvents[j].block > 1
          /\ to_str_radix(chainEvents[j].value, 10) = commitment_to_decimal(req[t].commitment).val
          /\ chainEvents[j].block <= last_block(sync_state)

\* C35: No duplicate leaf from a local deposit racing the syncer.  Once the
\* deposit has answered and the syncer has passed the deposit's
\* CommitmentAdded event, the commitment is in the worker tree exactly once
\* and in the Store exactly once.
C35_NoDuplicateLeaf ==
    \A t \in Tasks :
        DepositSynced(t) =>
            LET c == commitment_to_decimal(req[t].commitment).val
            IN  /\ Cardinality({k \in 1..Len(tree) : tree[k] = c}) = 1
                /\ Cardinality({i \in DOMAIN commitments : commitments[i].commitment = c}) = 1

\* the part of C35 that holds: the Store holds the commitment once
C35_OnceInStore ==
    \A t \in Tasks :
        DepositSynced(t) =>
            Cardinality({i \in DOMAIN commitments :
                            commitments[i].commitment
                              = commitment_to_decimal(req[t].commitment).val}) = 1

\* the cursor the Store holds, 0 when it holds none
StoredCursor ==
    IF "last_block" \in DOMAIN sync_state THEN from_str_radix(sync_state["last_block"], 10)
    ELSE 0

\* C36: Sync block ranges.  A cycle that goes on to query events has read
\* the stored cursor (0 when none is stored) and a block number above it, and
\* reads events of the blocks cursor + 1 .. block number only; a cycle given
\* a block number not above the cursor queries nothing and writes nothing;
\* the cycle that writes the cursor writes the block number it scanned up
\* to, the cursor still being the one it started from, so that the next
\* scan starts at the block after the last one scanned.
C36_SyncRanges ==
    [][ sync' # sync =>
          /\ sync.pc = "sleep" =>
                /\ UNCHANGED <<dbVars, tree, chainVars>>
                /\ sync'.pc \in {"sleep", "poll"}
                /\ sync'.pc = "poll" =>
                      /\ sync'.last_synced = StoredCursor
                      /\ sync'.latest_block > StoredCursor
                      /\ sync'.latest_block <= chainHead
                      /\ sync_state = EmptyFn => sync'.last_synced + 1 = 1
          /\ (sync.pc = "poll" /\ sync'.pc # "sleep") =>
                /\ \A k \in 1..Len(sync'.new_leaves) :
                      \E j \in 1..Len(chainEvents) :
                          /\ chainEvents[j].kind = "CommitmentAdded"
                          /\ chainEvents[j].leaf_index = sync'.new_leaves[k].leaf_index
                          /\ chainEvents[j].block \in (StoredCursor + 1)..sync.latest_block
                /\ \A k \in 1..Len(sync'.new_nullifiers) :
                      \E j \in 1..Len(chainEvents) :
                          /\ chainEvents[j].kind = "NullifierSpent"
                          /\ to_str_radix(chainEvents[j].value, 10) = sync'.new_nullifiers[k]
                          /\ chainEvents[j].block \in (StoredCursor + 1)..sync.latest_block
          /\ sync.pc # "sleep" => StoredCursor = sync.last_synced
          /\ sync.pc = "cursor" =>
                /\ sync.latest_block > StoredCursor
                /\ StoredCursor' = sync.latest_block
          /\ sync.pc # "cursor" => UNCHANGED sync_state ]_vars

\* reachable: with no cursor stored a first cycle has scanned block 1, and a
\* second cycle has scanned block 2 and is to write the cursor
C36_Witness ==
    /\ \A j \in 1..Len(chainEvents) : chainEvents[j].block > 1
    /\ StoredCursor = 1
    /\ sync.pc = "cursor"
    /\ sync.last_synced = 1
    /\ sync.latest_block = 2

\* C37: submit_root_if_changed.  The syncer enters it only in a cycle that
\* collected and appended at least one leaf; with no commitment row it ends
\* at once; it reads the root of the worker tree and goes on to submit it if
\* and only if the roots log is empty or its latest root is another one; it
\* writes the row (root, leaf_count, tx) in the step in which the submission
\* succeeded and writes no row when the submission fails; no other step of
\* the syncer writes a root row.
C37_SubmitRootIfChanged ==
    [][ sync' # sync =>
          /\ (sync.pc # "root_count" /\ sync'.pc = "root_count") =>
                /\ sync.new_commitments > 0
                /\ sync'.new_leaves = <<>>
          /\ sync.pc = "root_count" =>
                /\ sync'.pc = IF Cardinality(DOMAIN commitments) = 0 THEN "cursor" ELSE "root_read"
                /\ sync'.leaf_count = Cardinality(DOMAIN commitments)
          /\ (sync.pc = "root_read" /\ faults' = faults) =>
                /\ sync'.root = merkle_root(tree)
                /\ sync'.pc = IF \/ merkle_roots = <<>>
                                 \/ merkle_roots[Len(merkle_roots)].root # merkle_root(tree)
                              THEN "root_submit" ELSE "cursor"
          /\ (sync.pc = "root_read" /\ faults' # faults) => sync'.pc = "cursor"
          /\ sync.pc = "root_submit" =>
                /\ sync'.pc = "cursor"
                /\ merkle_roots' = IF faults' = faults
                                   THEN Append(merkle_roots,
                                               [root |-> sync.root, leaf_count |-> sync.leaf_count,
                                                submit_tx |-> "root_tx"])
                                   ELSE merkle_roots
          /\ sync.pc # "root_submit" => UNCHANGED merkle_roots ]_vars

\* reachable: a cycle has appended a leaf, submitted the new root and
\* written its row
C37_Witness ==
    /\ sync.pc = "cursor"
    /\ ~sync.failed
    /\ sync.new_commitments > 0
    /\ sync.root = merkle_root(tree)
    /\ merkle_roots # <<>>
    /\ merkle_roots[Len(merkle_roots)]
         = [root |-> sync.root, leaf_count |-> sync.leaf_count, submit_tx |-> "root_tx"]

\* reachable: a cycle has appended a leaf and found the root already recorded
C37_WitnessEqual ==
    /\ sync.pc = "cursor"
    /\ ~sync.failed
    /\ sync.new_commitments > 0
    /\ sync.root # <<>>
    /\ merkle_roots # <<>>
    /\ merkle_roots[Len(merkle_roots)].root = sync.root
    /\ merkle_roots[Len(merkle_roots)].leaf_count # sync.leaf_count

\* a cycle under way has collected the leaf of index i
CollectedLeaf(i) ==
    /\ sync.pc = "apply"
    /\ \E k \in 1..Len(sync.new_leaves) : sync.new_leaves[k].leaf_index = i

\* the leaf the chain has at index i is in the Store at i and in the tree
Mirrored(i) ==
    \A j \in 1..Len(chainEvents) :
        (chainEvents[j].kind = "CommitmentAdded" /\ chainEvents[j].leaf_index = i) =>
            /\ has_commitment(commitments, i)
            /\ commitments[i].commitment = to_str_radix(chainEvents[j].value, 10)
            /\ \E p \in 1..Len(tree) : tree[p] = to_str_radix(chainEvents[j].value, 10)

\* C38: Syncer liveness.  The syncer comes back to the start of a cycle again
\* and again, whatever failed; once the calls succeed the stored cursor comes
\* to equal the chain's block number and stays so; and every leaf a cycle
\* collected, the cycle failing part-way or not, is eventually in the Store
\* and in the worker tree.
C38_SyncerLiveness ==
    /\ []<>(sync.pc = "sleep")
    /\ <>[](StoredCursor = chainHead)
    /\ \A i \in 0..(TreeCapacity - 1) : CollectedLeaf(i) ~> Mirrored(i)

\* the part of C38 that holds: the loop goes on and the cursor catches up
C38_CursorCatchesUp ==
    /\ []<>(sync.pc = "sleep")
    /\ <>[](StoredCursor = chainHead)

\* the position commitment and nullifier hash recomputed from a burn request
BurnPosition(r) ==
    compute_position_commitment(r.position.secret, r.position.nullifier,
                                r.position.tick_lower + TICK_OFFSET,
                                r.position.tick_upper + TICK_OFFSET, r.position.liquidity)

\* the Store holds the position at the leaf the request names, unspent
PositionAuthentic(r) ==
    /\ has_commitment(commitments, r.leaf_index)
    /\ commitments[r.leaf_index].commitment = BurnPosition(r).commitment
    /\ ~is_nullifier_spent(nullifiers, BurnPosition(r).nullifier_hash)

\* C39: Burn authenticates the position note.  A valid burn request whose
\* position commitment is not the one stored at the leaf it names, or whose
\* position nullifier is spent, ends in its first step with
\* CommitmentNotFound, InvalidInput or NullifierAlreadySpent, no proof
\* generated and no relayer call made.
C39_BurnAuthenticates ==
    [][ \A t \in Tasks :
          (/\ pc[t] = "burn_prove"
           /\ pc'[t] # pc[t]
           /\ ~PositionAuthentic(req[t])) =>
              /\ pc'[t] = "done"
              /\ loc'[t].result \in {"CommitmentNotFound", "InvalidInput", "NullifierAlreadySpent"}
              /\ loc'[t].proofs = 0
              /\ loc'[t].calls = 0 ]_vars

\* the part of C39 that holds: a burn naming a leaf the worker tree does not
\* have gets no proof and reaches no relayer
C39_UnknownLeafNoProof ==
    [][ \A t \in Tasks :
          (/\ pc[t] = "burn_prove"
           /\ pc'[t] # pc[t]
           /\ ~worker_has_leaf(tree, req[t].leaf_index)) =>
              /\ pc'[t] = "done"
              /\ loc'[t].result = "ProverError"
              /\ loc'[t].proofs = 0
              /\ loc'[t].calls = 0 ]_vars

\* C40: Tick validation and offset.  A pair of ticks passes validation if
\* and only if both lie in [-887272, 887272] and tick_lower < tick_upper;
\* any other pair is rejected with InvalidInput; the offset ticks of an
\* accepted pair are tick + 887272 after the conversions, lie in
\* [0, 1774544] and keep the strict order.
C40_TickOffset ==
    \A t \in Tasks :
        (pc[t] = "done" /\ req[t].op = "ticks") =>
            LET lower == req[t].tick_lower
                upper == req[t].tick_upper
                accepted == /\ lower \in -887272..887272
                            /\ upper \in -887272..887272
                            /\ lower < upper
            IN  /\ loc[t].result = IF accepted THEN "Ok" ELSE "InvalidInput"
                /\ loc[t].result = "Ok" =>
                      /\ loc[t].leaf_index = lower + 887272
                      /\ loc[t].db_leaf_index = upper + 887272
                      /\ loc[t].leaf_index \in 0..1774544
                      /\ loc[t].db_leaf_index \in 0..1774544
                      /\ loc[t].leaf_index < loc[t].db_leaf_index

\* reachable: the widest pair accepted, and a pair of equal ticks rejected
C40_Witness ==
    /\ pc["t1"] = "done" /\ req["t1"].op = "ticks" /\ loc["t1"].result = "Ok"
    /\ req["t1"].tick_lower = -887272 /\ req["t1"].tick_upper = 887272
    /\ loc["t1"].leaf_index = 0 /\ loc["t1"].db_leaf_index = 1774544
    /\ pc["t2"] = "done" /\ req["t2"].op = "ticks" /\ loc["t2"].result = "InvalidInput"
    /\ req["t2"].tick_lower = req["t2"].tick_upper

====
